---------------------------- MODULE Spec2Model ----------------------------
(* Realtime conversational session engine of HumanlikeAI.                  *)
(*                                                                         *)
(* Spec          : one WebSocket session (app/api/ws_handler.py) with the   *)
(*                 Gemini Live adapter (app/services/gemini_live.py):       *)
(*                 the endpoint coroutine, the three routines it spawns,    *)
(*                 the client and the upstream service as environment.      *)
(* FairSpec      : Spec with the event loop running every ready task.      *)
(* SpecProactive : the delayed proactive message tasks of                   *)
(*                 app/api/message_routes.py and their per-pair lock.       *)
(*                                                                         *)
(* asyncio runs one coroutine at a time; a coroutine gives up control only  *)
(* at an await.  Every action below is the code between two awaits.         *)
(* Valence and arousal are kept in thousandths (0.7 is 700); intermediate   *)
(* float products are kept in units of 1/20000 (UNIT per thousandth).       *)
EXTENDS Integers, Sequences, FiniteSets, TLC

(***************************************************************************)
(* Bounds of the model                                                     *)
(***************************************************************************)
\* steps of the clock in one session
MaxTicks == 3
\* client frames read by routine (a) in one session
MaxFrames == 2
\* responses the upstream service puts on its streams in one session
MaxEvents == 2
\* upstream connect attempts that fail in one session
MaxConnFail == 3
\* upstream connections that break in one session
MaxDrops == 1
\* turn boundaries in a session that is a run of turn boundaries
MaxTurns == 5
\* the clock advances in steps of this many seconds
TickSeconds == 10
\* message requests that reach _fire_proactive_task
MaxTriggers == 3
\* session-resumption updates the upstream service sends in one session
MaxHandles == 2
\* classify_to_circumplex calls one caller makes in a row
MaxCalls == 3
\* typed texts whose retrieval scan is followed
MaxScans == 2

(***************************************************************************)
(* Program constants                                                       *)
(***************************************************************************)
AUTH_TIMEOUT == 10
BURST_AROUSAL_THRESHOLD == 700
BURST_MAX_FOLLOW_UPS == 3
BURST_COOLDOWN_SECONDS == 30
NUM_BURST_PROMPTS == 3
SEND_MAX_RETRIES == 3
RECONNECT_MAX_RETRIES == 3
IDLE_THRESHOLD_SECONDS == 30
CHECK_INTERVAL_SECONDS == 10
DISCONNECT_CODE == "GEMINI_DISCONNECTED"
CONTEXT_ENTRIES == 20
UNIT == 20

(***************************************************************************)
(* Affect model: app/services/emotion_model.py, app/services/emotion.py    *)
(***************************************************************************)
\* EMOTION_MAP in declaration order, <<label, valence, arousal>> (thousandths)
EMOTION_MAP ==
  << <<"excited", 800, 900>>,   <<"happy", 700, 500>>,
     <<"loving", 800, 400>>,    <<"neutral", 0, 200>>,
     <<"thinking", 100, 400>>,  <<"surprised", 300, 850>>,
     <<"jealous", -500, 750>>,  <<"shy", 300, 350>>,
     <<"anxious", -400, 800>>,  <<"sad", -700, 200>>,
     <<"angry", -800, 900>>,    <<"disappointed", -600, 350>>,
     <<"frustrated", -500, 650>>, <<"proud", 700, 650>>,
     <<"grateful", 650, 250>>,  <<"bored", -300, 100>>,
     <<"curious", 300, 550>>,   <<"embarrassed", -300, 550>>,
     <<"playful", 550, 750>>,   <<"lonely", -550, 150>>,
     <<"confused", -150, 450>> >>

EmotionIndex(label) ==
  IF \E i \in 1..Len(EMOTION_MAP) : EMOTION_MAP[i][1] = label
  THEN CHOOSE i \in 1..Len(EMOTION_MAP) : EMOTION_MAP[i][1] = label
  ELSE 4

_clamp(value, lo, hi) ==
  LET m == IF hi < value THEN hi ELSE value IN IF lo > m THEN lo ELSE m

\* The coordinates are floats in the program and decimals here, in units of
\* 1/20000 where a product or a blend is held unrounded.  Where a computed
\* float lies midway between two thousandths, or at the same distance from
\* two table entries, the rounding errors of the arithmetic that produced
\* it decide what round() and the distance comparison do; there each side
\* is an outcome, and the operators below yield sets of outcomes.

\* arousal in units of 1/20000
_intensity_from_arousal(arousalU) ==
  IF arousalU < 350 * UNIT THEN "low"
  ELSE IF arousalU <= 650 * UNIT THEN "mid" ELSE "high"

Dist2(vU, aU, i) ==
  LET dv == vU - EMOTION_MAP[i][2] * UNIT
      da == aU - EMOTION_MAP[i][3] * UNIT
  IN dv * dv + da * da

\* the loop of _nearest_label from entry i on: best holds the entries at
\* the least distance so far
RECURSIVE NearestFrom(_, _, _, _, _)
NearestFrom(vU, aU, i, best, best_dist) ==
  IF i > Len(EMOTION_MAP) THEN best
  ELSE LET dist == Dist2(vU, aU, i)
       IN IF dist < best_dist
          THEN NearestFrom(vU, aU, i + 1, {i}, dist)
          ELSE IF dist = best_dist
               THEN NearestFrom(vU, aU, i + 1, best \cup {i}, best_dist)
               ELSE NearestFrom(vU, aU, i + 1, best, best_dist)

\* the labels at the least distance: one label, unless the point is
\* equidistant from several entries
_nearest_label(vU, aU) ==
  { EMOTION_MAP[i][1] : i \in NearestFrom(vU, aU, 2, {1}, Dist2(vU, aU, 1)) }

\* round(x, 3) of a value held in units of 1/20000: the nearest
\* thousandth, either neighbour when the value lies midway
Round3(xU) ==
  LET q == xU \div UNIT
      r == xU % UNIT
  IN IF 2 * r < UNIT THEN {q}
     ELSE IF 2 * r > UNIT THEN {q + 1}
     ELSE {q, q + 1}

\* the codes whose first letter is E, I and whose third letter is F, T
\* once upper() has been applied (line 84), and the codes with len() < 4
MbtiE == {"ENFP", "ENTP", "ENFJ", "ENTJ", "ESFP", "ESTP", "ESFJ", "ESTJ", "enfp", "EXXX"}
MbtiI == {"INFP", "INTP", "INFJ", "INTJ", "ISFP", "ISTP", "ISFJ", "ISTJ", "IXXX"}
MbtiF == {"ENFP", "ENFJ", "ESFP", "ESFJ", "INFP", "INFJ", "ISFP", "ISFJ", "enfp", "XXFX"}
MbtiT == {"ENTP", "ENTJ", "ESTP", "ESTJ", "INTP", "INTJ", "ISTP", "ISTJ", "XXTX"}
MbtiShort == {"E", "IT", "ENF"}

\* faulty variant of _apply_mbti_modifiers: the products are not clamped
ApplyMbtiUnclamped(valence, arousal, mbti) ==
  IF mbti = "" \/ mbti \in MbtiShort THEN <<valence * UNIT, arousal * UNIT>>
  ELSE
    LET fa == IF mbti \in MbtiE THEN 23
              ELSE IF mbti \in MbtiI THEN 17 ELSE UNIT
        fv == IF mbti \in MbtiF THEN 24
              ELSE IF mbti \in MbtiT THEN 16 ELSE UNIT
    IN << valence * fv, arousal * fa >>

\* mbti is "" (None or empty), a code of fewer than four letters, or a
\* code of four letters; result in units of 1/20000
_apply_mbti_modifiers(valence, arousal, mbti) ==
  IF mbti = "" \/ mbti \in MbtiShort THEN <<valence * UNIT, arousal * UNIT>>
  ELSE
    LET fa == IF mbti \in MbtiE THEN 23
              ELSE IF mbti \in MbtiI THEN 17 ELSE UNIT
        fv == IF mbti \in MbtiF THEN 24
              ELSE IF mbti \in MbtiT THEN 16 ELSE UNIT
    IN << _clamp(valence * fv, -1000 * UNIT, 1000 * UNIT),
          _clamp(arousal * fa, 0, 1000 * UNIT) >>

label_to_circumplex(label, mbti) ==
  LET e == EMOTION_MAP[EmotionIndex(label)]
      m == _apply_mbti_modifiers(e[2], e[3], mbti)
  IN { [valence |-> v, arousal |-> a, label |-> l,
        intensity |-> _intensity_from_arousal(m[2])] :
         v \in Round3(m[1]), a \in Round3(m[2]), l \in _nearest_label(m[1], m[2]) }

\* faulty variant of _inertia_weights: no fast escape from neutral
InertiaWeightsByFamiliarityOnly(prev, familiarity_level) ==
  IF familiarity_level >= 8 THEN <<7, 13>>
  ELSE IF familiarity_level >= 5 THEN <<10, 10>>
  ELSE <<13, 7>>

\* weights in twentieths: <<w_prev, w_new>>
_inertia_weights(prev, familiarity_level) ==
  IF prev.label = "neutral" THEN <<6, 14>>
  ELSE IF familiarity_level >= 8 THEN <<7, 13>>
  ELSE IF familiarity_level >= 5 THEN <<10, 10>>
  ELSE <<13, 7>>

ApplyInertiaUnclamped(prev, new, familiarity_level) ==
  LET w == _inertia_weights(prev, familiarity_level)
      vU == prev.valence * w[1] + new.valence * w[2]
      aU == prev.arousal * w[1] + new.arousal * w[2]
  IN { [valence |-> v, arousal |-> a, label |-> l,
        intensity |-> _intensity_from_arousal(aU)] :
         v \in Round3(vU), a \in Round3(aU), l \in _nearest_label(vU, aU) }

apply_inertia(prev, new, familiarity_level) ==
  LET w == _inertia_weights(prev, familiarity_level)
      vU == _clamp(prev.valence * w[1] + new.valence * w[2], -1000 * UNIT, 1000 * UNIT)
      aU == _clamp(prev.arousal * w[1] + new.arousal * w[2], 0, 1000 * UNIT)
  IN { [valence |-> v, arousal |-> a, label |-> l,
        intensity |-> _intensity_from_arousal(aU)] :
         v \in Round3(vU), a \in Round3(aU), l \in _nearest_label(vU, aU) }

\* the keywords of EMOTION_KEYWORDS that the texts of the model can contain
EMOTION_KEYWORDS ==
  << <<"happy", {"haha", "awesome"}>>,
     <<"excited", {"wow", "omg"}>>,
     <<"sad", {"sorry"}>>,
     <<"angry", {"furious"}>> >>

\* a text is the set of keywords occurring in it, its length, and
\* whether strip() leaves it empty
Score(text, i) == Cardinality(text.kws \cap EMOTION_KEYWORDS[i][2])

RELATIONSHIP_EMOTION_BIAS(rel) ==
  CASE rel = "Nemesis" -> "angry"
    [] rel = "Best Friend" -> "happy"
    [] rel = "Stranger" -> "neutral"
    [] OTHER -> ""

\* faulty variant of classify_emotion_heuristic: the bias is returned
\* whatever the familiarity and the length of the text
HeuristicWithoutFamiliarityGate(text, relationship_type, familiarity_level) ==
  LET n == Len(EMOTION_KEYWORDS)
      best == CHOOSE i \in 1..n :
                /\ \A j \in 1..n : Score(text, j) <= Score(text, i)
                /\ \A j \in 1..(i - 1) : Score(text, j) < Score(text, i)
  IN IF Score(text, best) > 0 THEN EMOTION_KEYWORDS[best][1]
     ELSE IF RELATIONSHIP_EMOTION_BIAS(relationship_type) # ""
          THEN RELATIONSHIP_EMOTION_BIAS(relationship_type)
          ELSE "neutral"

\* faulty variant of classify_emotion_heuristic: in the middle band a text
\* of exactly 20 characters already gets the bias
HeuristicGateFromTwenty(text, relationship_type, familiarity_level) ==
  LET n == Len(EMOTION_KEYWORDS)
      best == CHOOSE i \in 1..n :
                /\ \A j \in 1..n : Score(text, j) <= Score(text, i)
                /\ \A j \in 1..(i - 1) : Score(text, j) < Score(text, i)
  IN IF Score(text, best) > 0 THEN EMOTION_KEYWORDS[best][1]
     ELSE IF RELATIONSHIP_EMOTION_BIAS(relationship_type) # ""
          THEN IF familiarity_level >= 7
               THEN RELATIONSHIP_EMOTION_BIAS(relationship_type)
               ELSE IF familiarity_level >= 4
                    THEN IF text.len >= 20
                         THEN RELATIONSHIP_EMOTION_BIAS(relationship_type)
                         ELSE "neutral"
                    ELSE "neutral"
          ELSE "neutral"

classify_emotion_heuristic(text, relationship_type, familiarity_level) ==
  LET n == Len(EMOTION_KEYWORDS)
      best == CHOOSE i \in 1..n :
                /\ \A j \in 1..n : Score(text, j) <= Score(text, i)
                /\ \A j \in 1..(i - 1) : Score(text, j) < Score(text, i)
  IN IF Score(text, best) > 0 THEN EMOTION_KEYWORDS[best][1]
     ELSE IF RELATIONSHIP_EMOTION_BIAS(relationship_type) # ""
          THEN IF familiarity_level >= 7
               THEN RELATIONSHIP_EMOTION_BIAS(relationship_type)
               ELSE IF familiarity_level >= 4
                    THEN IF text.len > 20
                         THEN RELATIONSHIP_EMOTION_BIAS(relationship_type)
                         ELSE "neutral"
                    ELSE "neutral"
          ELSE "neutral"

\* prev_state = None
NoPrevState == [valence |-> 0, arousal |-> 0, label |-> "", intensity |-> ""]

\* apply_inertia is called without a familiarity argument, so its default
\* of 5 applies
classify_to_circumplex(text, relationship_type, familiarity_level, mbti, prev_state) ==
  LET label == classify_emotion_heuristic(text, relationship_type, familiarity_level)
  IN UNION { IF prev_state # NoPrevState
             THEN apply_inertia(prev_state, new_state, 5)
             ELSE {new_state} :
               new_state \in label_to_circumplex(label, mbti) }


(***************************************************************************)
(* State of one WebSocket session                                          *)
(***************************************************************************)
VARIABLES
  now,        \* time.time(), seconds since ws.accept()
  settings,   \* get_settings() as read by the finally block: "unread", or
              \* whether the pinecone key and index host are set
  m_pc,       \* position of websocket_endpoint
  m_loc,      \* its locals: character_id_from_client, character
  state,      \* SessionState
  gem,        \* GeminiLiveSession: _running, _session, _context_manager
  up,         \* the upstream service: open connections, ids handed out, drops
  ws,         \* the client channel as the server sees it
  a_pc,       \* position of _forward_client_to_gemini (routine a)
  a_loc,      \* its locals: the frame being forwarded, attempt
  b_pc,       \* position of _forward_gemini_to_client (routine b)
  b_loc,      \* its locals: the connection its generator iterates
  c_pc,       \* position of _idle_topic_prompter (routine c)
  c_loc,      \* its locals: end of the current sleep, connection of its send
  rc,         \* per caller, the frame of reconnect() / close() it is executing
  cancelReq,  \* task.cancel() was called on the routine
  budget,     \* what the environment may still produce
  hist,       \* observations used by the properties
  scans,      \* the _proactive_search tasks routine (a) has created
  \* the message routes (one event loop, all sessions)
  _proactive_locks,  \* the dict of that name: key -> asyncio.Lock (locked?)
  ready,      \* the loop's FIFO queue of callbacks that are ready to run
  tasks,      \* the _maybe_send_proactive tasks created so far
  pro_hist,   \* observations used by the properties
  \* the affect functions, applied by a caller outside any session
  aff         \* the caller's character row, the EmotionState it holds and
              \* the last call it made

proVars == <<_proactive_locks, ready, tasks, pro_hist>>

affVars == <<aff>>

sessVars == <<now, settings, m_pc, m_loc, state, gem, up, ws, a_pc, a_loc,
              b_pc, b_loc, c_pc, c_loc, rc, cancelReq, budget, hist, scans>>

NoCharacter == [found |-> FALSE, relationship_type |-> "", familiarity_level |-> 5,
                mbti |-> "", last_ai |-> "none"]

\* the rows of CharacterRepository / MessageRepository the lookups can return
Nemesis == [found |-> TRUE, relationship_type |-> "Nemesis", familiarity_level |-> 8,
            mbti |-> "ENFP", last_ai |-> "none"]
PenPal == [found |-> TRUE, relationship_type |-> "Pen Pal", familiarity_level |-> 5,
           mbti |-> "", last_ai |-> "stored"]
Characters == {Nemesis, PenPal}

\* the last persisted AI message of the pair, when there is one
StoredEmotion == [valence |-> 800, arousal |-> 900, label |-> "excited", intensity |-> "high"]

\* a last AI message whose valence, arousal and intensity are NULL: the
\* `or` fallbacks 0.0, 0.2 and "low" stand in for them
LabelOnlyEmotion == [valence |-> 0, arousal |-> 200, label |-> "sad", intensity |-> "low"]

\* the rows the seeding of the initial emotion is explored on: a last AI
\* message with and without a relationship type of the table, none with
\* and without one, no relationship type, a last AI message with NULLs
SeedRows ==
  { Nemesis, PenPal,
    [found |-> TRUE, relationship_type |-> "Best Friend", familiarity_level |-> 4,
     mbti |-> "", last_ai |-> "stored"],
    [found |-> TRUE, relationship_type |-> "Pen Pal", familiarity_level |-> 5,
     mbti |-> "", last_ai |-> "none"],
    [found |-> TRUE, relationship_type |-> "", familiarity_level |-> 5,
     mbti |-> "", last_ai |-> "none"],
    [found |-> TRUE, relationship_type |-> "Stranger", familiarity_level |-> 8,
     mbti |-> "ENFP", last_ai |-> "label_only"] }

\* RELATIONSHIP_DEFAULT_EMOTIONS, <<valence, arousal, label, intensity>>
RELATIONSHIP_DEFAULT_EMOTIONS(rel) ==
  CASE rel = "Romantic Partner" -> <<600, 500, "loving", "medium">>
    [] rel = "Best Friend" -> <<500, 400, "happy", "medium">>
    [] rel = "Nemesis" -> <<-200, 500, "angry", "low">>
    [] rel = "Stranger" -> <<0, 200, "neutral", "low">>
    [] OTHER -> <<>>

\* SessionState.__init__
InitialSessionState ==
  [user_id |-> "",
   current_emotion |-> [valence |-> 0, arousal |-> 200, label |-> "neutral", intensity |-> "low"],
   transcript_buffer |-> <<>>,
   gemini_session |-> FALSE,
   running |-> TRUE,
   last_activity_time |-> 0,
   character_id |-> "",
   relationship_type |-> "",
   familiarity_level |-> 5,
   mbti |-> "",
   news_context |-> FALSE,
   user_interacted_since_last_emotion |-> TRUE,
   burst_count |-> 0,
   burst_cooldown_until |-> 0]

\* GeminiLiveSession.__init__ ; 0 stands for None
\* _session_handle is 0 for None, else the handle
InitialGem == [running |-> FALSE, session |-> 0, cm |-> 0, session_handle |-> 0]

\* no send_client_content of inject_context in progress
NoMessage == [lines |-> <<>>, turn_complete |-> TRUE]

IdleRc == [pc |-> "idle", attempt |-> 0, cmx |-> 0, ret |-> "", wait |-> 0]

\* texts the upstream service transcribes and the client types
TextHaha  == [kws |-> {"haha", "awesome"}, len |-> 20, blank |-> FALSE]
TextWow   == [kws |-> {"wow"}, len |-> 4, blank |-> FALSE]
TextPlain == [kws |-> {}, len |-> 30, blank |-> FALSE]
TextBlank == [kws |-> {}, len |-> 1, blank |-> TRUE]
OutTexts == {TextWow, TextPlain, TextBlank}
InTexts == {TextHaha}

\* classified: output transcripts classified since the last user activity
\* issued: burst follow-ups issued since the last cooldown was started
\* burst_sent: a follow-up was handed to the upstream connection since the
\*   last cooldown was started
\* memory_tasks: process_conversation_memory tasks created
\* exhausted: call sites whose reconnect() returned False
\* b_exit: why routine (b) returned
\* first: what ended the wait for the first frame ("timeout" or the frame)
\* last_handle: the last non-empty resumption handle a response carried
\* client_frames: frames the client has sent since the session streams
\* frame: msg["type"] of the last well-formed frame routine (a) has read
\* scan_failures: exceptions the _proactive_search tasks have caught
\* idle_sent: when the last idle prompt was handed to the upstream
\*   connection, -1 before the first
InitialHist ==
  [classified |-> 0, issued |-> 0, memory_tasks |-> 0,
   exhausted |-> {}, b_exit |-> "", first |-> "", last_handle |-> 0,
   client_frames |-> 0, scan_failures |-> 0, idle_sent |-> -1,
   burst_sent |-> FALSE, frame |-> ""]

\* the responses the upstream service can yield
UpstreamEvents == {"go_away", "no_content", "interrupted", "turn_complete",
                   "audio", "output", "input"}

\* the frames a client sends once the session streams
ClientFrames == {"audio", "text", "end_session", "control_other", "bad", "disconnect"}

\* What the environment of one session may still produce, and the character
\* rows its database holds.  A session is explored under each of these
\* allowances: a quiet network over a long time, a failing network (the
\* first connection, the three attempts of one reconnect() and one attempt
\* of a concurrent one), two dialogues, a run of turn boundaries, a
\* stream that carries session-resumption updates, a silent session
\* on each kind of character row, and typed texts with retrieval triggers
\* on a connection that can drop, and a run of turn boundaries long enough
\* for a burst cooldown to start and to run out.  `memory` and `news` are
\* the outcomes
\* of phase 2 (memory recall) and phase 2b (news fetch): "failed" when the
\* call raises, for the news "cached" when there are news items and
\* "none" when there are none; `scans` is the number of typed texts whose
\* retrieval scan is followed (in the other sessions the texts carry no
\* retrieval trigger, and their scans return at once).
Profiles ==
  { [ticks |-> MaxTicks, frames |-> 1, events |-> 1, fails |-> 0, drops |-> 0, conns |-> 2,
     rows |-> {PenPal}, handles |-> 0, client |-> ClientFrames,
     memory |-> {"ok"}, news |-> {"cached"}, scans |-> 0,
     upstream |-> UpstreamEvents],
    [ticks |-> 0, frames |-> 1, events |-> 0, fails |-> MaxConnFail, drops |-> MaxDrops,
     conns |-> RECONNECT_MAX_RETRIES + 2, rows |-> {Nemesis}, handles |-> 0,
     client |-> ClientFrames,
     memory |-> {"ok"}, news |-> {"none"}, scans |-> 0,
     upstream |-> UpstreamEvents],
    [ticks |-> 0, frames |-> MaxFrames, events |-> 1, fails |-> 0, drops |-> 0,
     conns |-> 3, rows |-> {PenPal}, handles |-> 0, client |-> ClientFrames,
     memory |-> {"ok"}, news |-> {"none"}, scans |-> 0,
     upstream |-> UpstreamEvents],
    [ticks |-> 0, frames |-> 1, events |-> MaxEvents, fails |-> 0, drops |-> 0,
     conns |-> 2, rows |-> {Nemesis}, handles |-> 0, client |-> ClientFrames,
     memory |-> {"ok"}, news |-> {"none"}, scans |-> 0,
     upstream |-> UpstreamEvents],
    [ticks |-> 0, frames |-> 1, events |-> 0, fails |-> 0, drops |-> 0,
     conns |-> MaxTurns + 1, rows |-> Characters, handles |-> 0, client |-> ClientFrames,
     memory |-> {"ok"}, news |-> {"none"}, scans |-> 0,
     upstream |-> UpstreamEvents],
    [ticks |-> 0, frames |-> 0, events |-> 0, fails |-> 0, drops |-> 0,
     conns |-> 3, rows |-> {Nemesis}, handles |-> MaxHandles, client |-> ClientFrames,
     memory |-> {"ok"}, news |-> {"none"}, scans |-> 0,
     upstream |-> UpstreamEvents],
    [ticks |-> 2 * MaxTicks + 1, frames |-> 0, events |-> 0, fails |-> 0, drops |-> 0,
     conns |-> 1, rows |-> SeedRows, handles |-> 0, client |-> {"end_session"},
     memory |-> {"ok", "failed"}, news |-> {"cached", "none", "failed"}, scans |-> 0,
     upstream |-> UpstreamEvents],
    [ticks |-> 0, frames |-> 2, events |-> 1, fails |-> 0, drops |-> 1,
     conns |-> 1, rows |-> {PenPal}, handles |-> 0, client |-> {"text"},
     memory |-> {"ok"}, news |-> {"none"}, scans |-> MaxScans,
     upstream |-> {"input"}],
    [ticks |-> MaxTicks, frames |-> 0, events |-> 0, fails |-> 0, drops |-> 0,
     conns |-> MaxTurns + 2, rows |-> {PenPal}, handles |-> 0, client |-> {"end_session"},
     memory |-> {"ok"}, news |-> {"none"}, scans |-> 0,
     upstream |-> UpstreamEvents] }

\* a dialogue long enough for the transcript to outgrow the context
\* message, with a client that only types
LongDialogue ==
  [ticks |-> 0, frames |-> CONTEXT_ENTRIES + 1, events |-> 1, fails |-> 0, drops |-> 0,
   conns |-> 2, rows |-> {PenPal}, handles |-> 0, client |-> {"text"},
     memory |-> {"ok"}, news |-> {"none"}, scans |-> 0,
     upstream |-> UpstreamEvents]

SessInitOf(profiles) ==
  /\ now = 0
  /\ settings = "unread"
  /\ m_pc = "auth_wait"
  /\ m_loc = [character_id |-> FALSE, character |-> NoCharacter,
              memory |-> "", news |-> ""]
  /\ state = InitialSessionState
  /\ gem = InitialGem
  /\ up = [open |-> {}, next |-> 1, presented |-> 0, last_audio |-> 0, first |-> ""]
  /\ ws = [closed |-> FALSE, errors |-> <<>>, auth_ok |-> 0,
           frame |-> [type |-> "", n |-> 0, emotion |-> "", valence |-> 0,
                      arousal |-> 0, intensity |-> ""],
           status |-> [t \in {"recall_memory", "search_web"} |-> ""]]
  /\ a_pc = "unborn" /\ a_loc = [type |-> "", attempt |-> 0, conn |-> 0, seq |-> 0,
                               triggers |-> {}, tracked |-> FALSE]
  /\ b_pc = "unborn" /\ b_loc = [conn |-> 0, prompt |-> 0, context |-> NoMessage, wait |-> 0]
  /\ c_pc = "unborn" /\ c_loc = [wake |-> 0, conn |-> 0, prompt |-> -1]
  /\ rc = [p \in {"a", "b", "m"} |-> IdleRc]
  /\ cancelReq = [p \in {"b", "c"} |-> FALSE]
  /\ budget \in profiles
  /\ hist = InitialHist
  /\ scans = <<>>

SessInit == SessInitOf(Profiles)

(***************************************************************************)
(* The client channel (starlette WebSocket)                                *)
(***************************************************************************)
\* server_message("error", {"code": code, ...}) handed to ws.send_json;
\* a send on a channel the server has closed raises and sends nothing
SendError(w, code) ==
  IF w.closed THEN w ELSE [w EXCEPT !.errors = Append(@, code)]

(***************************************************************************)
(* websocket_endpoint: phases 1 to 3 (authentication, context, connect)    *)
(***************************************************************************)
FirstFrames == {"auth", "auth_no_device", "audio", "text", "control", "no_type",
                "bad_json", "not_object", "disconnect"}
\* what an awaited storage or upstream call can raise
ExcKinds == {"TimeoutError", "Exception"}

\* faulty variant of Handler: no clause of its own for asyncio.TimeoutError
HandlerWithoutTimeoutClause(w, exc) ==
  CASE exc = "WebSocketDisconnect" -> w
    [] OTHER -> SendError(w, "INTERNAL")

\* faulty variant of Handler: a code outside the protocol for other errors
HandlerWithUnknownCode(w, exc) ==
  CASE exc = "WebSocketDisconnect" -> w
    [] exc = "TimeoutError" -> SendError(w, "TIMEOUT")
    [] OTHER -> SendError(w, "ERROR")

\* the except clauses of websocket_endpoint: the frame each sends before
\* control reaches the finally block
Handler(w, exc) ==
  CASE exc = "WebSocketDisconnect" -> w
    [] exc = "TimeoutError" -> SendError(w, "TIMEOUT")
    [] OTHER -> SendError(w, "INTERNAL")

\* asyncio.wait_for(ws.receive_text(), timeout=10.0) expires
M_AuthTimeout ==
  /\ m_pc = "auth_wait"
  /\ now >= AUTH_TIMEOUT
  /\ ws' = Handler(ws, "TimeoutError")
  /\ m_pc' = "finally"
  /\ hist' = [hist EXCEPT !.first = "timeout"]
  /\ UNCHANGED <<now, settings, m_loc, state, gem, up, a_pc, a_loc, b_pc, b_loc,
                 c_pc, c_loc, rc, cancelReq, budget>>
  /\ UNCHANGED <<scans, proVars, affVars>>

\* faulty variant of ParseFirst: a frame without a type passes as auth
ParseFirstMissingTypeAccepted(kind) ==
  CASE kind = "disconnect" -> "WebSocketDisconnect"
    [] kind \in {"bad_json", "not_object", "auth_no_device"} -> "Exception"
    [] kind \in {"auth", "no_type"} -> "auth"
    [] OTHER -> "AUTH_REQUIRED"

\* lines 197-213: what the first frame does to the endpoint.
\*   disconnect      ws.receive_text() raises WebSocketDisconnect
\*   bad_json        json.loads raises
\*   not_object      valid JSON that is no object: msg.get raises
\*   auth_no_device  type "auth" without payload.device_id: KeyError
\*   no_type         an object without "type": msg.get("type") is None
ParseFirst(kind) ==
  CASE kind = "disconnect" -> "WebSocketDisconnect"
    [] kind \in {"bad_json", "not_object", "auth_no_device"} -> "Exception"
    [] kind = "auth" -> "auth"
    [] OTHER -> "AUTH_REQUIRED"

\* the first inbound frame arrives in time
M_AuthRecv(kind, cid) ==
  /\ m_pc = "auth_wait"
  /\ now < AUTH_TIMEOUT
  /\ CASE ParseFirst(kind) = "auth" ->
            /\ m_loc' = [m_loc EXCEPT !.character_id = cid]
            /\ m_pc' = "db_user" /\ UNCHANGED ws
       [] ParseFirst(kind) = "AUTH_REQUIRED" ->
            /\ ws' = SendError(ws, "AUTH_REQUIRED")
            /\ m_pc' = "reject_close" /\ UNCHANGED m_loc
       [] OTHER ->
            /\ ws' = Handler(ws, ParseFirst(kind))
            /\ m_pc' = "finally" /\ UNCHANGED m_loc
  /\ hist' = [hist EXCEPT !.first = kind]
  /\ UNCHANGED <<now, settings, state, gem, up, a_pc, a_loc, b_pc, b_loc,
                 c_pc, c_loc, rc, cancelReq, budget>>
  /\ UNCHANGED <<scans, proVars, affVars>>

\* await ws.close(); return   (after AUTH_REQUIRED or CHARACTER_NOT_FOUND)
M_RejectClose ==
  /\ m_pc = "reject_close"
  /\ ws' = [ws EXCEPT !.closed = TRUE]
  /\ m_pc' = "finally"
  /\ UNCHANGED <<now, settings, m_loc, state, gem, up, a_pc, a_loc, b_pc, b_loc,
                 c_pc, c_loc, rc, cancelReq, budget, hist>>
  /\ UNCHANGED <<scans, proVars, affVars>>

\* an awaited call of phases 1 to 3 raises
M_Raise(exc) ==
  /\ m_pc \in {"db_user", "db_char", "db_emotion", "connecting", "greeting_send"}
  /\ m_pc = "greeting_send" => rc["m"].cmx \notin up.open
  /\ ws' = Handler(ws, exc)
  /\ m_pc' = "finally"
  /\ UNCHANGED <<now, settings, m_loc, state, gem, up, a_pc, a_loc, b_pc, b_loc,
                 c_pc, c_loc, rc, cancelReq, budget, hist>>
  /\ UNCHANGED <<scans, proVars, affVars>>

\* UserRepository.get_or_create
M_UpsertUser ==
  /\ m_pc = "db_user"
  /\ state' = [state EXCEPT !.user_id = "u1"]
  /\ m_pc' = IF m_loc.character_id THEN "db_char" ELSE "memory"
  /\ UNCHANGED <<now, settings, m_loc, gem, up, ws, a_pc, a_loc, b_pc, b_loc,
                 c_pc, c_loc, rc, cancelReq, budget, hist>>
  /\ UNCHANGED <<scans, proVars, affVars>>

\* CharacterRepository.get_by_id_and_user
M_LoadCharacter(ch) ==
  /\ m_pc = "db_char"
  /\ ch.found => ch \in budget.rows
  /\ IF ch.found
     THEN /\ m_loc' = [m_loc EXCEPT !.character = ch]
          /\ state' = [state EXCEPT !.character_id = "c1",
                                    !.relationship_type = ch.relationship_type,
                                    !.familiarity_level = ch.familiarity_level,
                                    !.mbti = ch.mbti]
          /\ m_pc' = "db_emotion"
          /\ UNCHANGED ws
     ELSE /\ ws' = SendError(ws, "CHARACTER_NOT_FOUND")
          /\ m_pc' = "reject_close"
          /\ UNCHANGED <<m_loc, state>>
  /\ UNCHANGED <<now, settings, gem, up, a_pc, a_loc, b_pc, b_loc,
                 c_pc, c_loc, rc, cancelReq, budget, hist>>
  /\ UNCHANGED <<scans, proVars, affVars>>

\* faulty variant of SeedEmotion: the relationship default is looked up
\* before the last AI message
\* (SeedEmotion below: last AI message, else relationship default, else
\* the neutral state of SessionState.__init__)
SeedEmotionDefaultFirst(ch, current) ==
  IF RELATIONSHIP_DEFAULT_EMOTIONS(ch.relationship_type) # <<>>
  THEN LET d == RELATIONSHIP_DEFAULT_EMOTIONS(ch.relationship_type)
       IN [valence |-> d[1], arousal |-> d[2], label |-> d[3], intensity |-> d[4]]
  ELSE IF ch.last_ai = "stored" THEN StoredEmotion
       ELSE IF ch.last_ai = "label_only" THEN LabelOnlyEmotion
            ELSE current

SeedEmotion(ch, current) ==
  IF ch.last_ai = "stored" THEN StoredEmotion
  ELSE IF ch.last_ai = "label_only" THEN LabelOnlyEmotion
  ELSE IF RELATIONSHIP_DEFAULT_EMOTIONS(ch.relationship_type) # <<>>
       THEN LET d == RELATIONSHIP_DEFAULT_EMOTIONS(ch.relationship_type)
            IN [valence |-> d[1], arousal |-> d[2], label |-> d[3], intensity |-> d[4]]
       ELSE current

\* MessageRepository.get_last_ai_emotion
M_LoadEmotion ==
  /\ m_pc = "db_emotion"
  /\ state' = [state EXCEPT !.current_emotion = SeedEmotion(m_loc.character, @)]
  /\ m_pc' = "memory"
  /\ UNCHANGED <<now, settings, m_loc, gem, up, ws, a_pc, a_loc, b_pc, b_loc,
                 c_pc, c_loc, rc, cancelReq, budget, hist>>
  /\ UNCHANGED <<scans, proVars, affVars>>

\* phase 2 and 2b: memory recall and news fetch; an exception of either is
\* caught and logged, and news_context stays the empty list it was
\* (news_context is TRUE for a non-empty list)
M_LoadContext(memory, news) ==
  /\ m_pc = "memory"
  /\ memory \in budget.memory /\ news \in budget.news
  /\ m_loc' = [m_loc EXCEPT !.memory = memory, !.news = news]
  /\ state' = [state EXCEPT !.news_context = (news = "cached")]
  /\ m_pc' = "connect"
  /\ UNCHANGED <<now, settings, gem, up, ws, a_pc, a_loc, b_pc, b_loc,
                 c_pc, c_loc, rc, cancelReq, budget, hist>>
  /\ UNCHANGED <<scans, proVars, affVars>>

\* GeminiLiveSession.connect up to its await of __aenter__; the upstream
\* service notes the handle the connection request presents
ConnectBegin(g, u) ==
  [gem |-> [g EXCEPT !.cm = u.next],
   up |-> [u EXCEPT !.next = @ + 1, !.presented = g.session_handle]]

\* GeminiLiveSession.connect after __aenter__ returned connection c
ConnectEnd(g, u, c) ==
  [gem |-> [g EXCEPT !.session = c, !.running = TRUE],
   up |-> [u EXCEPT !.open = @ \cup {c}]]

\* what the upstream connection has been handed by a send that returned
\* (send_audio, send_text, inject_context: gemini_live.py lines 82-119):
\* last_audio is the number of the last audio frame, first the kind of the
\* first message of the session
Handed(u, al) ==
  [u EXCEPT !.last_audio = IF al.type = "audio" THEN al.seq ELSE @,
            !.first = IF @ = "" THEN al.type ELSE @]

\* faulty variant of M_Connect: auth_ok is sent before connect() is awaited
M_ConnectSendsAuthOk ==
  /\ m_pc = "connect"
  /\ up.next <= budget.conns
  /\ state' = [state EXCEPT !.gemini_session = TRUE]
  /\ gem' = ConnectBegin(gem, up).gem
  /\ up' = ConnectBegin(gem, up).up
  /\ rc' = [rc EXCEPT !["m"].cmx = up.next]
  /\ ws' = [ws EXCEPT !.auth_ok = @ + 1]
  /\ m_pc' = "connecting"
  /\ UNCHANGED <<now, settings, m_loc, a_pc, a_loc, b_pc, b_loc,
                 c_pc, c_loc, cancelReq, budget, hist>>
  /\ UNCHANGED <<scans, proVars, affVars>>

\* phase 3: state.gemini_session = GeminiLiveSession(...); await connect()
M_Connect ==
  /\ m_pc = "connect"
  /\ up.next <= budget.conns
  /\ state' = [state EXCEPT !.gemini_session = TRUE]
  /\ gem' = ConnectBegin(gem, up).gem
  /\ up' = ConnectBegin(gem, up).up
  /\ rc' = [rc EXCEPT !["m"].cmx = up.next]
  /\ m_pc' = "connecting"
  /\ UNCHANGED <<now, settings, m_loc, ws, a_pc, a_loc, b_pc, b_loc,
                 c_pc, c_loc, cancelReq, budget, hist>>
  /\ UNCHANGED <<scans, proVars, affVars>>

\* connect() returned: send auth_ok
M_Connected ==
  /\ m_pc = "connecting"
  /\ gem' = ConnectEnd(gem, up, rc["m"].cmx).gem
  /\ up' = ConnectEnd(gem, up, rc["m"].cmx).up
  /\ ws' = [ws EXCEPT !.auth_ok = @ + 1]
  /\ m_pc' = "auth_ok_sent"
  /\ UNCHANGED <<now, settings, m_loc, state, a_pc, a_loc, b_pc, b_loc,
                 c_pc, c_loc, rc, cancelReq, budget, hist>>
  /\ UNCHANGED <<scans, proVars, affVars>>

\* send_text(greeting_prompt) up to its await of send_client_content
M_Greeting ==
  /\ m_pc = "auth_ok_sent"
  /\ rc' = [rc EXCEPT !["m"].cmx = gem.session]
  /\ m_pc' = "greeting_send"
  /\ UNCHANGED <<now, settings, m_loc, state, gem, up, ws, a_pc, a_loc, b_pc, b_loc,
                 c_pc, c_loc, cancelReq, budget, hist>>
  /\ UNCHANGED <<scans, proVars, affVars>>

\* phase 4: the greeting was sent; start the three routines and await (a)
M_Spawn ==
  /\ m_pc = "greeting_send"
  /\ rc["m"].cmx \in up.open
  /\ state' = [state EXCEPT !.last_activity_time = now]
  /\ a_pc' = "recv"
  /\ b_pc' = "start"
  /\ c_pc' = "sleep"
  /\ c_loc' = [wake |-> now + CHECK_INTERVAL_SECONDS, conn |-> 0, prompt |-> -1]
  /\ m_pc' = "await_client"
  /\ up' = Handed(up, [type |-> "greeting", seq |-> 0])
  /\ UNCHANGED <<now, settings, m_loc, gem, ws, a_loc, b_loc,
                 rc, cancelReq, budget, hist>>
  /\ UNCHANGED <<scans, proVars, affVars>>

(***************************************************************************)
(* GeminiLiveSession.close and GeminiLiveSession.reconnect                 *)
(* rc[p] is the frame of the reconnect() that caller p is executing:       *)
(*   closing    awaiting __aexit__ of context manager cmx                  *)
(*   sleep      awaiting asyncio.sleep(0.5 * attempt)                      *)
(*   wait       the milliseconds this attempt sleeps before its connect()  *)
(*   connecting awaiting __aenter__ of context manager cmx                 *)
(***************************************************************************)
\* close() after __aexit__ returned or raised
CloseEnd(g, u, cmx) ==
  [gem |-> [g EXCEPT !.cm = 0, !.session = 0],
   up |-> [u EXCEPT !.open = @ \ {cmx}]]

\* reconnect(): the part of an attempt that follows close()
AfterClose(g, u, attempt, ret) ==
  IF attempt > 1
  THEN [gem |-> g, up |-> u,
        rc |-> [pc |-> "sleep", attempt |-> attempt, cmx |-> 0, ret |-> ret,
                wait |-> 500 * attempt]]
  ELSE [gem |-> ConnectBegin(g, u).gem, up |-> ConnectBegin(g, u).up,
        rc |-> [pc |-> "connecting", attempt |-> attempt, cmx |-> u.next, ret |-> ret,
                wait |-> 0]]

\* reconnect(): one iteration of its loop, up to the first await
ReconnectAttempt(g, u, attempt, ret) ==
  IF g.cm # 0
  THEN [gem |-> [g EXCEPT !.running = FALSE], up |-> u,
        rc |-> [pc |-> "closing", attempt |-> attempt, cmx |-> g.cm, ret |-> ret,
                wait |-> 0]]
  ELSE AfterClose([g EXCEPT !.running = FALSE], u, attempt, ret)

\* the attempt needs a connect before its first await
NeedsConnect(g, attempt) == g.cm = 0 /\ attempt = 1

Live(p) == IF p = "a" THEN TRUE ELSE ~cancelReq[p]

\* __aexit__ finished inside reconnect()
R_Closed(p) ==
  /\ rc[p].pc = "closing" /\ Live(p)
  /\ rc[p].attempt = 1 => up.next <= budget.conns
  /\ LET c == CloseEnd(gem, up, rc[p].cmx)
         r == AfterClose(c.gem, c.up, rc[p].attempt, rc[p].ret)
     IN /\ gem' = r.gem /\ up' = r.up
        /\ rc' = [rc EXCEPT ![p] = r.rc]
  /\ UNCHANGED <<now, settings, m_pc, m_loc, state, ws, a_pc, a_loc, b_pc, b_loc,
                 c_pc, c_loc, cancelReq, budget, hist>>
  /\ UNCHANGED <<scans, proVars, affVars>>

\* the back-off sleep of reconnect() finished: connect()
R_Slept(p) ==
  /\ rc[p].pc = "sleep" /\ Live(p)
  /\ up.next <= budget.conns
  /\ gem' = ConnectBegin(gem, up).gem
  /\ up' = ConnectBegin(gem, up).up
  /\ rc' = [rc EXCEPT ![p].pc = "connecting", ![p].cmx = up.next]
  /\ UNCHANGED <<now, settings, m_pc, m_loc, state, ws, a_pc, a_loc, b_pc, b_loc,
                 c_pc, c_loc, cancelReq, budget, hist>>
  /\ UNCHANGED <<scans, proVars, affVars>>

\* connect() raised inside reconnect() and attempts remain
R_ConnectRetry(p) ==
  /\ rc[p].pc = "connecting" /\ Live(p)
  /\ rc[p].attempt < RECONNECT_MAX_RETRIES
  /\ budget.fails > 0
  /\ budget' = [budget EXCEPT !.fails = @ - 1]
  /\ LET r == ReconnectAttempt(gem, up, rc[p].attempt + 1, rc[p].ret)
     IN /\ gem' = r.gem /\ up' = r.up
        /\ rc' = [rc EXCEPT ![p] = r.rc]
  /\ UNCHANGED <<now, settings, m_pc, m_loc, state, ws, a_pc, a_loc, b_pc, b_loc,
                 c_pc, c_loc, cancelReq, hist>>
  /\ UNCHANGED <<scans, proVars, affVars>>

\* the environment: an open upstream connection breaks
UpstreamDrop ==
  /\ budget.drops > 0
  /\ m_pc # "closed"
  /\ \E c \in up.open : up' = [up EXCEPT !.open = @ \ {c}]
  /\ budget' = [budget EXCEPT !.drops = @ - 1]
  /\ UNCHANGED <<now, settings, m_pc, m_loc, state, gem, ws, a_pc, a_loc, b_pc, b_loc,
                 c_pc, c_loc, rc, cancelReq, hist>>
  /\ UNCHANGED <<scans, proVars, affVars>>

\* the environment: time passes while the endpoint waits for the auth frame
\* or for routine (a); the other awaits of the endpoint take no time
Tick ==
  /\ budget.ticks > 0
  /\ m_pc \in {"auth_wait", "await_client"}
  /\ m_pc = "auth_wait" => now < AUTH_TIMEOUT
  /\ now' = now + TickSeconds
  /\ budget' = [budget EXCEPT !.ticks = @ - 1]
  /\ UNCHANGED <<settings, m_pc, m_loc, state, gem, up, ws, a_pc, a_loc, b_pc, b_loc,
                 c_pc, c_loc, rc, cancelReq, hist>>
  /\ UNCHANGED <<scans, proVars, affVars>>

(***************************************************************************)
(* Routine (a): _forward_client_to_gemini                                  *)
(***************************************************************************)
\* faulty variant of Activity: the burst count is left as it is
ActivityKeepsBurstCount(st, t) ==
  [st EXCEPT !.last_activity_time = t,
             !.user_interacted_since_last_emotion = TRUE]

\* lines 493-495 and 521-523: bookkeeping after the send loop of a frame
Activity(st, t) ==
  [st EXCEPT !.last_activity_time = t,
             !.user_interacted_since_last_emotion = TRUE,
             !.burst_count = 0]

\* a _proactive_search task before its first step
NewScan(triggers) ==
  [triggers |-> triggers, pc |-> "new", tool |-> "", ran |-> {}, conn |-> 0]

\* lines 527 and 657: asyncio.create_task(_proactive_search(text, ws, state))
\* at the end of a text frame and on transcribed speech
CreateScan(sc, al) ==
  IF al.type = "text" /\ al.tracked THEN Append(sc, NewScan(al.triggers)) ELSE sc

\* _execute_tool: the two tools of the retrieval scan
RetrievalTools == {"recall_memory", "search_web"}

\* faulty variant of AdapterReady: the _running flag is not consulted
AdapterReadyIgnoresRunning(g) == g.session # 0

\* send_audio / send_text / inject_context transmit only on a running adapter
AdapterReady(g) == g.session # 0 /\ g.running

\* a frame arrives on the client channel; it is frame number seq of the
\* client's sequence
A_Recv(kind, text, triggers) ==
  /\ a_pc = "recv"
  /\ budget.frames > 0
  /\ kind \in budget.client
  /\ (kind # "text" \/ budget.scans = 0) => triggers = {}
  /\ budget' = [budget EXCEPT !.frames = @ - 1,
                              !.scans = IF kind = "text" /\ @ > 0 THEN @ - 1 ELSE @]
  /\ LET seq == hist.client_frames + 1
         h == [hist EXCEPT !.client_frames = seq,
                           !.frame = CASE kind \in {"audio", "text"} -> kind
                                       [] kind \in {"end_session", "control_other"} -> "control"
                                       [] OTHER -> ""]
         al == [type |-> kind, attempt |-> 0, conn |-> gem.session, seq |-> seq,
                triggers |-> triggers, tracked |-> (kind = "text" /\ budget.scans > 0)]
     IN CASE kind \in {"end_session", "bad", "disconnect"} ->
               /\ a_pc' = "done"
               /\ hist' = h
               /\ UNCHANGED <<a_loc, state, scans>>
          [] kind = "control_other" ->
               /\ hist' = h
               /\ UNCHANGED <<a_pc, a_loc, state, scans>>
          [] OTHER ->
               LET st == IF kind = "text"
                         THEN [state EXCEPT !.transcript_buffer =
                                              Append(@, [role |-> "user", text |-> text])]
                         ELSE state
               IN IF AdapterReady(gem)
                  THEN /\ a_loc' = al
                       /\ a_pc' = "sending"
                       /\ state' = st
                       /\ hist' = h
                       /\ UNCHANGED scans
                  ELSE /\ state' = Activity(st, now)
                       /\ hist' = [h EXCEPT !.classified = 0]
                       /\ scans' = CreateScan(scans, al)
                       /\ UNCHANGED <<a_pc, a_loc>>
  /\ UNCHANGED <<now, settings, m_pc, m_loc, gem, up, ws, b_pc, b_loc,
                 c_pc, c_loc, rc, cancelReq>>
  /\ UNCHANGED <<proVars, affVars>>

\* faulty variant of SendLoopBreaks: the loop goes on after a send that succeeded
SendLoopNeverBreaks(attempt) == attempt >= SEND_MAX_RETRIES - 1

\* lines 474-477 and 502-505: `break` after a send that returned, so the
\* loop over the attempts is left whatever the attempt
SendLoopBreaks(attempt) == TRUE

\* the awaited send returned
A_SendOk ==
  /\ a_pc = "sending"
  /\ a_loc.conn \in up.open
  /\ up' = Handed(up, a_loc)
  /\ IF SendLoopBreaks(a_loc.attempt)
     THEN /\ state' = Activity(state, now)
          /\ hist' = [hist EXCEPT !.classified = 0]
          /\ scans' = CreateScan(scans, a_loc)
          /\ a_pc' = "recv"
          /\ UNCHANGED a_loc
     ELSE /\ a_loc' = [a_loc EXCEPT !.attempt = @ + 1]
          /\ UNCHANGED <<state, hist, a_pc, scans>>
  /\ UNCHANGED <<now, settings, m_pc, m_loc, gem, ws, b_pc, b_loc,
                 c_pc, c_loc, rc, cancelReq, budget>>
  /\ UNCHANGED <<proVars, affVars>>

\* the awaited send raised
A_SendFail ==
  /\ a_pc = "sending"
  /\ a_loc.conn \notin up.open
  /\ IF a_loc.attempt < SEND_MAX_RETRIES - 1
     THEN /\ NeedsConnect(gem, 1) => up.next <= budget.conns
          /\ LET r == ReconnectAttempt(gem, up, 1, "a_send")
             IN /\ gem' = r.gem /\ up' = r.up
                /\ rc' = [rc EXCEPT !["a"] = r.rc]
          /\ a_pc' = "reconnect"
          /\ UNCHANGED <<state, hist, scans>>
     ELSE /\ state' = Activity(state, now)
          /\ hist' = [hist EXCEPT !.classified = 0]
          /\ scans' = CreateScan(scans, a_loc)
          /\ a_pc' = "recv"
          /\ UNCHANGED <<gem, up, rc>>
  /\ UNCHANGED <<now, settings, m_pc, m_loc, ws, a_loc, b_pc, b_loc,
                 c_pc, c_loc, cancelReq, budget>>
  /\ UNCHANGED <<proVars, affVars>>

\* reconnect() returned True: await asyncio.sleep(0.5)
A_ReconnectOk ==
  /\ a_pc = "reconnect"
  /\ rc["a"].pc = "connecting"
  /\ gem' = ConnectEnd(gem, up, rc["a"].cmx).gem
  /\ up' = ConnectEnd(gem, up, rc["a"].cmx).up
  /\ rc' = [rc EXCEPT !["a"] = IdleRc]
  /\ a_pc' = "retry_sleep"
  /\ UNCHANGED <<now, settings, m_pc, m_loc, state, ws, a_loc, b_pc, b_loc,
                 c_pc, c_loc, cancelReq, budget, hist>>
  /\ UNCHANGED <<scans, proVars, affVars>>

\* reconnect() returned False: error frame, return
A_ReconnectFail ==
  /\ a_pc = "reconnect"
  /\ rc["a"].pc = "connecting"
  /\ rc["a"].attempt = RECONNECT_MAX_RETRIES
  /\ budget.fails > 0
  /\ budget' = [budget EXCEPT !.fails = @ - 1]
  /\ rc' = [rc EXCEPT !["a"] = IdleRc]
  /\ ws' = SendError(ws, DISCONNECT_CODE)
  /\ hist' = [hist EXCEPT !.exhausted = @ \cup {"a_send"}]
  /\ a_pc' = "done"
  /\ UNCHANGED <<now, settings, m_pc, m_loc, state, gem, up, a_loc, b_pc, b_loc,
                 c_pc, c_loc, cancelReq>>
  /\ UNCHANGED <<scans, proVars, affVars>>

\* next iteration of the send loop
A_Retry ==
  /\ a_pc = "retry_sleep"
  /\ IF AdapterReady(gem)
     THEN /\ a_loc' = [a_loc EXCEPT !.attempt = @ + 1, !.conn = gem.session]
          /\ a_pc' = "sending"
          /\ UNCHANGED <<state, hist, scans>>
     ELSE /\ state' = Activity(state, now)
          /\ hist' = [hist EXCEPT !.classified = 0]
          /\ scans' = CreateScan(scans, a_loc)
          /\ a_pc' = "recv"
          /\ UNCHANGED a_loc
  /\ UNCHANGED <<now, settings, m_pc, m_loc, gem, up, ws, b_pc, b_loc,
                 c_pc, c_loc, rc, cancelReq, budget>>
  /\ UNCHANGED <<proVars, affVars>>

(***************************************************************************)
(* Routine (b): _forward_gemini_to_client                                  *)
(***************************************************************************)
\* top of `while state.running`: receive_responses() iterates the connection
\* that is current now; with no connection the generator ends at once and
\* the turn-boundary reconnect() starts
BTop(g, u, bl) ==
  IF g.session # 0
  THEN [b_pc |-> "recv", b_loc |-> [bl EXCEPT !.conn = g.session],
        gem |-> g, up |-> u, rcb |-> IdleRc]
  ELSE LET r == ReconnectAttempt(g, u, 1, "b_turn")
       IN [b_pc |-> "reconnect", b_loc |-> bl,
           gem |-> r.gem, up |-> r.up, rcb |-> r.rc]

BTopEnabled(g, u) ==
  (g.session = 0 /\ NeedsConnect(g, 1)) => u.next <= budget.conns

\* faulty variant of BurstFires: the follow-up count is not consulted
BurstFiresUncounted(st, t) ==
  /\ st.current_emotion.arousal >= BURST_AROUSAL_THRESHOLD
  /\ t >= st.burst_cooldown_until

\* faulty variant of BurstEval: the count is reset and no cooldown starts
BurstEvalNoCooldown(st, g, u, bl, h, t) ==
  IF /\ st.current_emotion.arousal >= BURST_AROUSAL_THRESHOLD
     /\ st.burst_count < BURST_MAX_FOLLOW_UPS
     /\ t >= st.burst_cooldown_until
  THEN [state |-> [st EXCEPT !.burst_count = @ + 1],
        hist |-> [h EXCEPT !.issued = @ + 1],
        b_pc |-> "burst_sleep",
        b_loc |-> [bl EXCEPT !.prompt = st.burst_count % NUM_BURST_PROMPTS,
                             !.wait = 800],
        gem |-> g, up |-> u, rcb |-> IdleRc]
  ELSE LET top == BTop(g, u, bl)
       IN [state |-> [st EXCEPT !.burst_count = 0],
           hist |-> IF st.burst_count > 0
                    THEN [h EXCEPT !.issued = 0, !.burst_sent = FALSE] ELSE h,
           b_pc |-> top.b_pc, b_loc |-> top.b_loc,
           gem |-> top.gem, up |-> top.up, rcb |-> top.rcb]

\* faulty variant of BurstEval: the template is chosen after the increment
BurstEvalIndexAfter(st, g, u, bl, h, t) ==
  IF /\ st.current_emotion.arousal >= BURST_AROUSAL_THRESHOLD
     /\ st.burst_count < BURST_MAX_FOLLOW_UPS
     /\ t >= st.burst_cooldown_until
  THEN [state |-> [st EXCEPT !.burst_count = @ + 1],
        hist |-> [h EXCEPT !.issued = @ + 1],
        b_pc |-> "burst_sleep",
        b_loc |-> [bl EXCEPT !.prompt = (st.burst_count + 1) % NUM_BURST_PROMPTS,
                             !.wait = 800],
        gem |-> g, up |-> u, rcb |-> IdleRc]
  ELSE LET top == BTop(g, u, bl)
       IN [state |-> IF st.burst_count > 0
                     THEN [st EXCEPT !.burst_cooldown_until = t + BURST_COOLDOWN_SECONDS,
                                     !.burst_count = 0]
                     ELSE st,
           hist |-> IF st.burst_count > 0
                    THEN [h EXCEPT !.issued = 0, !.burst_sent = FALSE] ELSE h,
           b_pc |-> top.b_pc, b_loc |-> top.b_loc,
           gem |-> top.gem, up |-> top.up, rcb |-> top.rcb]

\* faulty variant of BurstFires: a count equal to the maximum still fires
BurstFiresOffByOne(st, t) ==
  /\ st.current_emotion.arousal >= BURST_AROUSAL_THRESHOLD
  /\ st.burst_count <= BURST_MAX_FOLLOW_UPS
  /\ t >= st.burst_cooldown_until

\* the condition of the emotional burst (lines 690-694)
BurstFires(st, t) ==
  /\ st.current_emotion.arousal >= BURST_AROUSAL_THRESHOLD
  /\ st.burst_count < BURST_MAX_FOLLOW_UPS
  /\ t >= st.burst_cooldown_until

\* lines 687-709 up to the next await; b_loc.prompt is the index of the
\* follow-up template and b_loc.wait the milliseconds of the sleep at hand
BurstEval(st, g, u, bl, h, t) ==
  IF BurstFires(st, t)
  THEN [state |-> [st EXCEPT !.burst_count = @ + 1],
        hist |-> [h EXCEPT !.issued = @ + 1],
        b_pc |-> "burst_sleep",
        b_loc |-> [bl EXCEPT !.prompt = st.burst_count % NUM_BURST_PROMPTS,
                             !.wait = 800],
        gem |-> g, up |-> u, rcb |-> IdleRc]
  ELSE LET top == BTop(g, u, bl)
       IN [state |-> IF st.burst_count > 0
                     THEN [st EXCEPT !.burst_cooldown_until = t + BURST_COOLDOWN_SECONDS,
                                     !.burst_count = 0]
                     ELSE st,
           hist |-> IF st.burst_count > 0
                    THEN [h EXCEPT !.issued = 0, !.burst_sent = FALSE] ELSE h,
           b_pc |-> top.b_pc, b_loc |-> top.b_loc,
           gem |-> top.gem, up |-> top.up, rcb |-> top.rcb]

\* the task starts: first pass through the top of the loop
B_Start ==
  /\ b_pc = "start" /\ ~cancelReq["b"]
  /\ BTopEnabled(gem, up)
  /\ LET top == BTop(gem, up, b_loc)
     IN /\ b_pc' = top.b_pc /\ b_loc' = top.b_loc
        /\ gem' = top.gem /\ up' = top.up
        /\ rc' = [rc EXCEPT !["b"] = top.rcb]
  /\ UNCHANGED <<now, settings, m_pc, m_loc, state, ws, a_pc, a_loc,
                 c_pc, c_loc, cancelReq, budget, hist>>
  /\ UNCHANGED <<scans, proVars, affVars>>

\* lines 616-622: what classify_to_circumplex can return for an output
\* transcript
Classified(st, text) ==
  classify_to_circumplex(text, st.relationship_type, st.familiarity_level,
                         st.mbti, st.current_emotion)

\* faulty variant of OnOutput: the interaction-pending flag is left set
OnOutputKeepsFlag(st, emotion) ==
  IF st.user_interacted_since_last_emotion
  THEN [st EXCEPT !.current_emotion = emotion]
  ELSE st

\* lines 613-642: an output transcript, emotion being the classification
OnOutput(st, emotion) ==
  IF st.user_interacted_since_last_emotion
  THEN [st EXCEPT !.current_emotion = emotion,
                  !.user_interacted_since_last_emotion = FALSE]
  ELSE st

\* faulty variant of Stamped: the arousal of the session's first state
StampedInitialArousal(w, type, emo) ==
  [w EXCEPT !.frame = [type |-> type, n |-> @.n + 1, emotion |-> emo.label,
                       valence |-> emo.valence,
                       arousal |-> InitialSessionState.current_emotion.arousal,
                       intensity |-> emo.intensity]]

\* lines 591-604 and 631-642: the audio or text frame built from emo and
\* sent to the client; ws.frame is the last of these frames and n its
\* number among them
Stamped(w, type, emo) ==
  [w EXCEPT !.frame = [type |-> type, n |-> @.n + 1, emotion |-> emo.label,
                       valence |-> emo.valence, arousal |-> emo.arousal,
                       intensity |-> emo.intensity]]

\* the generator yields a response that keeps the loop running; of the
\* frames sent to the client the error and auth_ok frames and the last
\* audio or text frame are recorded
B_Event(ev, text, triggers) ==
  /\ b_pc = "recv" /\ ~cancelReq["b"]
  /\ b_loc.conn \in up.open
  /\ budget.events > 0
  /\ ev # "go_away" /\ ev \in budget.upstream
  /\ (ev # "input" \/ budget.scans = 0) => triggers = {}
  /\ budget' = [budget EXCEPT !.events = @ - 1,
                              !.scans = IF ev = "input" /\ @ > 0 THEN @ - 1 ELSE @]
  /\ CASE ev = "no_content" -> UNCHANGED <<state, ws, hist, b_pc, scans>>
       [] ev = "interrupted" ->
            UNCHANGED <<state, ws, hist, b_pc, scans>>
       [] ev = "audio" ->
            /\ ws' = Stamped(ws, "audio", state.current_emotion)
            /\ UNCHANGED <<state, hist, b_pc, scans>>
       [] ev = "turn_complete" ->
            /\ b_pc' = "turn_sent"
            /\ UNCHANGED <<state, ws, hist, scans>>
       [] ev = "output" ->
            /\ \E emotion \in (IF state.user_interacted_since_last_emotion
                               THEN Classified(state, text)
                               ELSE {state.current_emotion}) :
                 LET st == OnOutput(state, emotion)
                 IN /\ state' = IF text.blank THEN st
                                ELSE [st EXCEPT !.transcript_buffer =
                                        Append(@, [role |-> "model", text |-> text,
                                                   emotion |-> emotion.label])]
                    /\ ws' = IF text.blank THEN ws ELSE Stamped(ws, "text", emotion)
            /\ hist' = IF state.user_interacted_since_last_emotion
                       THEN [hist EXCEPT !.classified = @ + 1] ELSE hist
            /\ UNCHANGED <<b_pc, scans>>
       [] OTHER ->
            /\ state' = [state EXCEPT !.transcript_buffer =
                                        Append(@, [role |-> "user", text |-> text]),
                                      !.user_interacted_since_last_emotion = TRUE]
            /\ hist' = [hist EXCEPT !.classified = 0]
            /\ scans' = CreateScan(scans, [type |-> "text", triggers |-> triggers,
                                           tracked |-> budget.scans > 0])
            /\ UNCHANGED <<ws, b_pc>>
  /\ UNCHANGED <<now, settings, m_pc, m_loc, gem, up, a_pc, a_loc, b_loc,
                 c_pc, c_loc, rc, cancelReq>>
  /\ UNCHANGED <<proVars, affVars>>

\* faulty variant of StoreHandle: an update without a handle clears the handle
StoreHandleAlways(g, new_handle) ==
  [g EXCEPT !.session_handle = new_handle]

\* receive_responses, lines 138-143: new_handle is 0 when the update has none
StoreHandle(g, new_handle) ==
  IF new_handle # 0 THEN [g EXCEPT !.session_handle = new_handle] ELSE g

\* the generator yields a session_resumption_update; it has no
\* server_content, so routine (b) goes on to the next response (line 562)
B_Resumption(fresh) ==
  /\ b_pc = "recv" /\ ~cancelReq["b"]
  /\ b_loc.conn \in up.open
  /\ budget.handles > 0
  /\ budget' = [budget EXCEPT !.handles = @ - 1]
  /\ LET new_handle == IF fresh THEN hist.last_handle + 1 ELSE 0
     IN /\ gem' = StoreHandle(gem, new_handle)
        /\ hist' = [hist EXCEPT !.last_handle = IF fresh THEN new_handle ELSE @]
  /\ UNCHANGED <<now, settings, m_pc, m_loc, state, up, ws, a_pc, a_loc, b_pc, b_loc,
                 c_pc, c_loc, rc, cancelReq>>
  /\ UNCHANGED <<scans, proVars, affVars>>

\* line 572, after the turn_complete frame was sent
B_TurnSent ==
  /\ b_pc = "turn_sent" /\ ~cancelReq["b"]
  /\ state' = [state EXCEPT !.last_activity_time = now]
  /\ b_pc' = "recv"
  /\ UNCHANGED <<now, settings, m_pc, m_loc, gem, up, ws, a_pc, a_loc, b_loc,
                 c_pc, c_loc, rc, cancelReq, budget, hist>>
  /\ UNCHANGED <<scans, proVars, affVars>>

\* faulty variant of StreamEndReturns: the end of the stream ends routine (b)
StreamEndAlwaysReturns(st) == TRUE

\* lines 662-663: the end of the stream ends routine (b) only when the
\* session is no longer running
StreamEndReturns(st) == ~st.running

\* the generator ends (after a turn, on go_away, or because the connection
\* was closed): lines 661-664, reconnect()
B_StreamEnd(go_away) ==
  /\ b_pc = "recv" /\ ~cancelReq["b"]
  /\ go_away => b_loc.conn \in up.open /\ budget.events > 0
  /\ budget' = IF go_away THEN [budget EXCEPT !.events = @ - 1] ELSE budget
  /\ NeedsConnect(gem, 1) => up.next <= budget.conns
  /\ IF ~StreamEndReturns(state)
     THEN /\ LET r == ReconnectAttempt(gem, up, 1, "b_turn")
             IN /\ gem' = r.gem /\ up' = r.up
                /\ rc' = [rc EXCEPT !["b"] = r.rc]
          /\ b_pc' = "reconnect"
          /\ UNCHANGED hist
     ELSE /\ b_pc' = "done"
          /\ hist' = [hist EXCEPT !.b_exit = "not_running"]
          /\ UNCHANGED <<gem, up, rc>>
  /\ UNCHANGED <<now, settings, m_pc, m_loc, state, ws, a_pc, a_loc, b_loc,
                 c_pc, c_loc, cancelReq>>
  /\ UNCHANGED <<scans, proVars, affVars>>

\* an await of routine (b) on the upstream connection raised: lines 713-717
B_Raise ==
  /\ b_pc \in {"recv", "injecting", "burst_send"} /\ ~cancelReq["b"]
  /\ b_loc.conn \notin up.open
  /\ IF state.running
     THEN /\ b_pc' = "exc_sleep" /\ b_loc' = [b_loc EXCEPT !.wait = 1000]
          /\ UNCHANGED hist
     ELSE /\ b_pc' = "done" /\ hist' = [hist EXCEPT !.b_exit = "not_running"]
          /\ UNCHANGED b_loc
  /\ UNCHANGED <<now, settings, m_pc, m_loc, state, gem, up, ws, a_pc, a_loc,
                 c_pc, c_loc, rc, cancelReq, budget>>
  /\ UNCHANGED <<scans, proVars, affVars>>

\* line 718 after asyncio.sleep(1): reconnect()
B_ExcSlept ==
  /\ b_pc = "exc_sleep" /\ ~cancelReq["b"]
  /\ NeedsConnect(gem, 1) => up.next <= budget.conns
  /\ LET r == ReconnectAttempt(gem, up, 1, "b_exc")
     IN /\ gem' = r.gem /\ up' = r.up
        /\ rc' = [rc EXCEPT !["b"] = r.rc]
  /\ b_pc' = "reconnect" /\ b_loc' = [b_loc EXCEPT !.wait = 0]
  /\ UNCHANGED <<now, settings, m_pc, m_loc, state, ws, a_pc, a_loc,
                 c_pc, c_loc, cancelReq, budget, hist>>
  /\ UNCHANGED <<scans, proVars, affVars>>

\* faulty variant of RecentEntries: the first entries, transcript_buffer[:20]
RecentEntriesFromStart(buf) ==
  SubSeq(buf, 1, IF Len(buf) > CONTEXT_ENTRIES THEN CONTEXT_ENTRIES ELSE Len(buf))

\* line 676: state.transcript_buffer[-20:]
RecentEntries(buf) ==
  SubSeq(buf, IF Len(buf) > CONTEXT_ENTRIES THEN Len(buf) - CONTEXT_ENTRIES + 1 ELSE 1,
         Len(buf))

\* lines 678-681: one line of the context per entry, labelled with the
\* Chinese word for "user" or for "you" (written here in pinyin); the texts
\* of the model are shorter than the 150 characters a line keeps
ContextLine(entry) ==
  [role |-> IF entry.role = "user" THEN "yonghu" ELSE "ni", text |-> entry.text]

\* GeminiLiveSession.inject_context: send_client_content(turn_complete=False)
inject_context(lines) == [lines |-> lines, turn_complete |-> FALSE]

\* reconnect() returned True
B_ReconnectOk ==
  /\ b_pc = "reconnect" /\ ~cancelReq["b"]
  /\ rc["b"].pc = "connecting"
  /\ LET c == ConnectEnd(gem, up, rc["b"].cmx)
     IN IF rc["b"].ret = "b_exc"
        THEN \* back to the top of the loop
             LET top == BTop(c.gem, c.up, b_loc)
             IN /\ b_pc' = top.b_pc /\ b_loc' = top.b_loc
                /\ gem' = top.gem /\ up' = top.up
                /\ rc' = [rc EXCEPT !["b"] = top.rcb]
                /\ UNCHANGED <<state, hist>>
        ELSE IF state.transcript_buffer # <<>>
        THEN \* lines 675-685: inject_context(...)
             /\ b_pc' = "injecting"
             /\ b_loc' = [b_loc EXCEPT
                            !.conn = c.gem.session,
                            !.context =
                              LET recent == RecentEntries(state.transcript_buffer)
                              IN inject_context([i \in 1..Len(recent) |->
                                                   ContextLine(recent[i])])]
             /\ gem' = c.gem /\ up' = c.up
             /\ rc' = [rc EXCEPT !["b"] = IdleRc]
             /\ UNCHANGED <<state, hist>>
        ELSE LET e == BurstEval(state, c.gem, c.up, b_loc, hist, now)
             IN /\ state' = e.state /\ hist' = e.hist
                /\ b_pc' = e.b_pc /\ b_loc' = e.b_loc
                /\ gem' = e.gem /\ up' = e.up
                /\ rc' = [rc EXCEPT !["b"] = e.rcb]
  /\ UNCHANGED <<now, settings, m_pc, m_loc, ws, a_pc, a_loc,
                 c_pc, c_loc, cancelReq, budget>>
  /\ UNCHANGED <<scans, proVars, affVars>>

\* reconnect() returned False: lines 665-672 and 718-719
B_ReconnectFail ==
  /\ b_pc = "reconnect" /\ ~cancelReq["b"]
  /\ rc["b"].pc = "connecting"
  /\ rc["b"].attempt = RECONNECT_MAX_RETRIES
  /\ budget.fails > 0
  /\ budget' = [budget EXCEPT !.fails = @ - 1]
  /\ ws' = IF rc["b"].ret = "b_turn" THEN SendError(ws, DISCONNECT_CODE) ELSE ws
  /\ hist' = [hist EXCEPT !.exhausted = @ \cup {rc["b"].ret}, !.b_exit = "exhausted"]
  /\ rc' = [rc EXCEPT !["b"] = IdleRc]
  /\ b_pc' = "done"
  /\ UNCHANGED <<now, settings, m_pc, m_loc, state, gem, up, a_pc, a_loc, b_loc,
                 c_pc, c_loc, cancelReq>>
  /\ UNCHANGED <<scans, proVars, affVars>>

\* inject_context returned: evaluate the burst rule
B_Injected ==
  /\ b_pc = "injecting" /\ ~cancelReq["b"]
  /\ b_loc.conn \in up.open
  /\ BTopEnabled(gem, up)
  /\ LET e == BurstEval(state, gem, Handed(up, [type |-> "context", seq |-> 0]),
                        [b_loc EXCEPT !.context = NoMessage], hist, now)
     IN /\ state' = e.state /\ hist' = e.hist
        /\ b_pc' = e.b_pc /\ b_loc' = e.b_loc
        /\ gem' = e.gem /\ up' = e.up
        /\ rc' = [rc EXCEPT !["b"] = e.rcb]
  /\ UNCHANGED <<now, settings, m_pc, m_loc, ws, a_pc, a_loc,
                 c_pc, c_loc, cancelReq, budget>>
  /\ UNCHANGED <<scans, proVars, affVars>>

\* asyncio.sleep(0.8) finished: lines 704-705
B_BurstSlept ==
  /\ b_pc = "burst_sleep" /\ ~cancelReq["b"]
  /\ BTopEnabled(gem, up)
  /\ IF state.running /\ AdapterReady(gem)
     THEN /\ b_pc' = "burst_send"
          /\ b_loc' = [b_loc EXCEPT !.conn = gem.session, !.wait = 0]
          /\ UNCHANGED <<gem, up, rc>>
     ELSE LET top == BTop(gem, up, [b_loc EXCEPT !.wait = 0])
          IN /\ b_pc' = top.b_pc /\ b_loc' = top.b_loc
             /\ gem' = top.gem /\ up' = top.up
             /\ rc' = [rc EXCEPT !["b"] = top.rcb]
  /\ UNCHANGED <<now, settings, m_pc, m_loc, state, ws, a_pc, a_loc,
                 c_pc, c_loc, cancelReq, budget, hist>>
  /\ UNCHANGED <<scans, proVars, affVars>>

\* the follow-up was sent: back to the top of the loop
B_BurstSent ==
  /\ b_pc = "burst_send" /\ ~cancelReq["b"]
  /\ b_loc.conn \in up.open
  /\ BTopEnabled(gem, up)
  /\ LET top == BTop(gem, Handed(up, [type |-> "follow_up", seq |-> 0]), b_loc)
     IN /\ b_pc' = top.b_pc /\ b_loc' = top.b_loc
        /\ gem' = top.gem /\ up' = top.up
        /\ rc' = [rc EXCEPT !["b"] = top.rcb]
  /\ hist' = [hist EXCEPT !.burst_sent = TRUE]
  /\ UNCHANGED <<now, settings, m_pc, m_loc, state, ws, a_pc, a_loc,
                 c_pc, c_loc, cancelReq, budget>>
  /\ UNCHANGED <<scans, proVars, affVars>>

\* CancelledError is thrown into routine (b) at its await
B_Cancelled ==
  /\ cancelReq["b"] /\ b_pc # "done"
  /\ b_pc' = "done"
  /\ rc' = [rc EXCEPT !["b"] = IdleRc]
  /\ hist' = [hist EXCEPT !.b_exit = "cancelled"]
  /\ UNCHANGED <<now, settings, m_pc, m_loc, state, gem, up, ws, a_pc, a_loc, b_loc,
                 c_pc, c_loc, cancelReq, budget>>
  /\ UNCHANGED <<scans, proVars, affVars>>

(***************************************************************************)
(* Routine (c): _idle_topic_prompter                                       *)
(***************************************************************************)
\* asyncio.sleep(CHECK_INTERVAL_SECONDS) finished
C_Wake ==
  /\ c_pc = "sleep" /\ ~cancelReq["c"]
  /\ now >= c_loc.wake
  /\ IF ~state.running \/ ~state.gemini_session
     THEN c_pc' = "done" /\ UNCHANGED <<c_loc, state>>
     ELSE IF now - state.last_activity_time >= IDLE_THRESHOLD_SECONDS
     THEN IF AdapterReady(gem)
          THEN /\ c_pc' = "sending"
               /\ c_loc' = [c_loc EXCEPT !.conn = gem.session,
                                         !.prompt = IF state.news_context
                                                    THEN 0 ELSE 1]
               /\ UNCHANGED state
          ELSE /\ state' = [state EXCEPT !.last_activity_time = now]
               /\ c_loc' = [c_loc EXCEPT !.wake = now + CHECK_INTERVAL_SECONDS]
               /\ UNCHANGED c_pc
     ELSE /\ c_loc' = [c_loc EXCEPT !.wake = now + CHECK_INTERVAL_SECONDS]
          /\ UNCHANGED <<c_pc, state>>
  /\ UNCHANGED <<now, settings, m_pc, m_loc, gem, up, ws, a_pc, a_loc, b_pc, b_loc,
                 rc, cancelReq, budget, hist>>
  /\ UNCHANGED <<scans, proVars, affVars>>

\* faulty variant of C_SendDone: an exception of the send is not caught
\* where it occurs and ends the routine
C_SendDoneUncaught ==
  /\ c_pc = "sending" /\ ~cancelReq["c"]
  /\ state' = IF c_loc.conn \in up.open
              THEN [state EXCEPT !.last_activity_time = now] ELSE state
  /\ hist' = IF c_loc.conn \in up.open THEN [hist EXCEPT !.idle_sent = now] ELSE hist
  /\ c_loc' = [c_loc EXCEPT !.wake = now + CHECK_INTERVAL_SECONDS, !.prompt = -1]
  /\ c_pc' = IF c_loc.conn \in up.open THEN "sleep" ELSE "done"
  /\ up' = IF c_loc.conn \in up.open
           THEN Handed(up, [type |-> "idle_prompt", seq |-> 0]) ELSE up
  /\ UNCHANGED <<now, settings, m_pc, m_loc, gem, ws, a_pc, a_loc, b_pc, b_loc,
                 rc, cancelReq, budget>>
  /\ UNCHANGED <<scans, proVars, affVars>>

\* send_text(prompt) returned or raised (the exception is logged)
C_SendDone ==
  /\ c_pc = "sending" /\ ~cancelReq["c"]
  /\ state' = IF c_loc.conn \in up.open
              THEN [state EXCEPT !.last_activity_time = now] ELSE state
  /\ hist' = IF c_loc.conn \in up.open THEN [hist EXCEPT !.idle_sent = now] ELSE hist
  /\ c_loc' = [c_loc EXCEPT !.wake = now + CHECK_INTERVAL_SECONDS, !.prompt = -1]
  /\ c_pc' = "sleep"
  /\ up' = IF c_loc.conn \in up.open
           THEN Handed(up, [type |-> "idle_prompt", seq |-> 0]) ELSE up
  /\ UNCHANGED <<now, settings, m_pc, m_loc, gem, ws, a_pc, a_loc, b_pc, b_loc,
                 rc, cancelReq, budget>>
  /\ UNCHANGED <<scans, proVars, affVars>>

\* CancelledError is thrown into routine (c) at its await
C_Cancelled ==
  /\ cancelReq["c"] /\ c_pc # "done"
  /\ c_pc' = "done"
  /\ UNCHANGED <<now, settings, m_pc, m_loc, state, gem, up, ws, a_pc, a_loc, b_pc, b_loc,
                 c_loc, rc, cancelReq, budget, hist>>
  /\ UNCHANGED <<scans, proVars, affVars>>

(***************************************************************************)
(* The retrieval scan: _proactive_search, one task per typed text          *)
(***************************************************************************)
\* faulty variant of ToolOf: the loop over SEARCH_TRIGGERS comes first
ToolOfSearchFirst(triggers) ==
  IF "search_web" \in triggers THEN "search_web"
  ELSE IF "recall_memory" \in triggers THEN "recall_memory"
       ELSE ""

\* the first statement that returns decides: the loop over RECALL_TRIGGERS
\* comes first, the loop over SEARCH_TRIGGERS second
ToolOf(triggers) ==
  IF "recall_memory" \in triggers THEN "recall_memory"
  ELSE IF "search_web" \in triggers THEN "search_web"
       ELSE ""

\* a _proactive_search task that has returned
EndedScan ==
  [triggers |-> {}, pc |-> "done", tool |-> "", ran |-> {}, conn |-> 0]

\* `except Exception as e: logger.warning(...)`, lines 160-161 and 182-183
Caught(h, raised) == IF raised THEN [h EXCEPT !.scan_failures = @ + 1] ELSE h

\* server_message("status", {"action": action, "tool": tool}) is sent:
\* ws.status keeps, for each tool, the action of its last status frame
Status(w, tool, action) == [w EXCEPT !.status[tool] = action]

\* the task's first step: the scan of the text, the "searching" status
\* frame (a send on a closed channel raises, which is caught and logged)
\* and the call of the tool
S_Start(i) ==
  /\ i \in DOMAIN scans /\ scans[i].pc = "new"
  /\ LET tool == ToolOf(scans[i].triggers)
     IN /\ scans' = [scans EXCEPT ![i] =
                       IF tool = "" \/ ws.closed THEN EndedScan
                       ELSE [@ EXCEPT !.pc = "tool", !.tool = tool,
                                      !.ran = @ \cup {tool}]]
        /\ hist' = Caught(hist, tool # "" /\ ws.closed)
        /\ ws' = IF tool = "" \/ ws.closed THEN ws ELSE Status(ws, tool, "searching")
  /\ UNCHANGED <<now, settings, m_pc, m_loc, state, gem, up, a_pc, a_loc,
                 b_pc, b_loc, c_pc, c_loc, rc, cancelReq, budget>>
  /\ UNCHANGED <<proVars, affVars>>

\* _execute_tool returned a text to inject ("result"), returned that
\* nothing was found ("empty") or raised ("raise"); inject_context
\* transmits only on a running adapter; the "done" status frame follows
\* unless the tool raised: the exception leaves the try block
S_ToolDone(i, outcome) ==
  /\ i \in DOMAIN scans /\ scans[i].pc = "tool"
  /\ IF outcome = "result" /\ AdapterReady(gem)
     THEN /\ scans' = [scans EXCEPT ![i] = [@ EXCEPT !.pc = "inject",
                                                     !.conn = gem.session]]
          /\ UNCHANGED <<hist, ws>>
     ELSE /\ scans' = [scans EXCEPT ![i] = EndedScan]
          /\ hist' = Caught(hist, outcome = "raise" \/ ws.closed)
          /\ ws' = IF outcome = "raise" \/ ws.closed THEN ws
                   ELSE Status(ws, scans[i].tool, "done")
  /\ UNCHANGED <<now, settings, m_pc, m_loc, state, gem, up, a_pc, a_loc,
                 b_pc, b_loc, c_pc, c_loc, rc, cancelReq, budget>>
  /\ UNCHANGED <<proVars, affVars>>

\* inject_context returned, or raised on a connection that is gone; the
\* "done" status frame follows unless it raised
S_Injected(i) ==
  /\ i \in DOMAIN scans /\ scans[i].pc = "inject"
  /\ scans' = [scans EXCEPT ![i] = EndedScan]
  /\ hist' = Caught(hist, scans[i].conn \notin up.open \/ ws.closed)
  /\ up' = IF scans[i].conn \in up.open
           THEN Handed(up, [type |-> "tool_result", seq |-> 0]) ELSE up
  /\ ws' = IF scans[i].conn \notin up.open \/ ws.closed THEN ws
           ELSE Status(ws, scans[i].tool, "done")
  /\ UNCHANGED <<now, settings, m_pc, m_loc, state, gem, a_pc, a_loc,
                 b_pc, b_loc, c_pc, c_loc, rc, cancelReq, budget>>
  /\ UNCHANGED <<proVars, affVars>>

(***************************************************************************)
(* websocket_endpoint: end of phase 4 and the finally block                *)
(***************************************************************************)
\* `await client_task` returned: gemini_task.cancel(); await gemini_task
M_ClientDone ==
  /\ m_pc = "await_client"
  /\ a_pc = "done"
  /\ cancelReq' = [cancelReq EXCEPT !["b"] = (b_pc # "done")]
  /\ m_pc' = "await_b"
  /\ UNCHANGED <<now, settings, m_loc, state, gem, up, ws, a_pc, a_loc, b_pc, b_loc,
                 c_pc, c_loc, rc, budget, hist>>
  /\ UNCHANGED <<scans, proVars, affVars>>

\* gemini_task finished: idle_task.cancel(); await idle_task
M_GeminiDone ==
  /\ m_pc = "await_b"
  /\ b_pc = "done"
  /\ cancelReq' = [cancelReq EXCEPT !["c"] = (c_pc # "done")]
  /\ m_pc' = "await_c"
  /\ UNCHANGED <<now, settings, m_loc, state, gem, up, ws, a_pc, a_loc, b_pc, b_loc,
                 c_pc, c_loc, rc, budget, hist>>
  /\ UNCHANGED <<scans, proVars, affVars>>

\* idle_task finished: fall into the finally block
M_IdleDone ==
  /\ m_pc = "await_c"
  /\ c_pc = "done"
  /\ m_pc' = "finally"
  /\ UNCHANGED <<now, settings, m_loc, state, gem, up, ws, a_pc, a_loc, b_pc, b_loc,
                 c_pc, c_loc, rc, cancelReq, budget, hist>>
  /\ UNCHANGED <<scans, proVars, affVars>>

\* get_settings(): whether pinecone_api_key and pinecone_index_host are set
Settings(cfg) == IF cfg THEN "configured" ELSE "unconfigured"

\* faulty variant of Dispatch: the memory task is created for an empty
\* transcript too
DispatchEmptyToo(st, cfg, h) ==
  IF st.user_id # "" /\ cfg
  THEN [h EXCEPT !.memory_tasks = @ + 1] ELSE h

\* lines 435-452: asyncio.create_task(process_conversation_memory(...))
Dispatch(st, cfg, h) ==
  IF st.transcript_buffer # <<>> /\ st.user_id # "" /\ cfg
  THEN [h EXCEPT !.memory_tasks = @ + 1] ELSE h

\* lines 423-433: running = False, cancel what still runs, close the adapter
M_Finally(cfg) ==
  /\ m_pc = "finally"
  /\ state' = [state EXCEPT !.running = FALSE]
  /\ cancelReq' = [p \in {"b", "c"} |->
                     cancelReq[p] \/ (IF p = "b" THEN b_pc ELSE c_pc) \notin {"unborn", "done"}]
  /\ IF state.gemini_session /\ gem.cm # 0
     THEN /\ gem' = [gem EXCEPT !.running = FALSE]
          /\ rc' = [rc EXCEPT !["m"] = [pc |-> "closing", attempt |-> 0,
                                         cmx |-> gem.cm, ret |-> "finally",
                                         wait |-> 0]]
          /\ m_pc' = "fin_closing"
          /\ cfg
          /\ UNCHANGED <<ws, hist, settings>>
     ELSE /\ gem' = IF state.gemini_session THEN [gem EXCEPT !.running = FALSE] ELSE gem
          /\ settings' = Settings(cfg)
          /\ hist' = Dispatch(state, cfg, hist)
          /\ ws' = [ws EXCEPT !.closed = TRUE]
          /\ m_pc' = "closed"
          /\ UNCHANGED rc
  /\ UNCHANGED <<now, m_loc, up, a_pc, a_loc, b_pc, b_loc,
                 c_pc, c_loc, budget>>
  /\ UNCHANGED <<scans, proVars, affVars>>

\* close() returned: dispatch the memory task, close the channel
M_FinClosed(cfg) ==
  /\ m_pc = "fin_closing"
  /\ gem' = CloseEnd(gem, up, rc["m"].cmx).gem
  /\ up' = CloseEnd(gem, up, rc["m"].cmx).up
  /\ rc' = [rc EXCEPT !["m"] = IdleRc]
  /\ settings' = Settings(cfg)
  /\ hist' = Dispatch(state, cfg, hist)
  /\ ws' = [ws EXCEPT !.closed = TRUE]
  /\ m_pc' = "closed"
  /\ UNCHANGED <<now, m_loc, state, a_pc, a_loc, b_pc, b_loc,
                 c_pc, c_loc, cancelReq, budget>>
  /\ UNCHANGED <<scans, proVars, affVars>>

(***************************************************************************)
(* Delayed proactive messages (app/api/message_routes.py)                  *)
(* The message routes run on one event loop.  Its queue of ready callbacks *)
(* is FIFO: asyncio.create_task puts the first step of the new task at the *)
(* tail, and so does the completion of whatever a suspended coroutine      *)
(* awaits.  The loop runs the callback at the head.                        *)
(***************************************************************************)
\* the (character_id, user_id) pairs
Keys == {"k1", "k2"}
\* arousal of the emotion handed to _fire_proactive_task, in thousandths
TriggerArousals == {650, 900}
PROACTIVE_AROUSAL_THRESHOLD == 650

ProInit ==
  /\ _proactive_locks = <<>>
  /\ ready = <<>>
  /\ tasks = <<>>
  /\ pro_hist = [triggers |-> 0, dropped |-> 0,
                 persisted |-> [k \in Keys |-> 0]]

\* the lock of a pair is held
Locked(locks, k) == k \in DOMAIN locks /\ locks[k]

\* a route handler's await before its call of _fire_proactive_task
\* completes: its continuation joins the queue
P_RequestArrives(k, arousal) ==
  /\ pro_hist.triggers < MaxTriggers
  /\ ready' = Append(ready, [kind |-> "request", key |-> k, arousal |-> arousal])
  /\ pro_hist' = [pro_hist EXCEPT !.triggers = @ + 1]
  /\ UNCHANGED <<_proactive_locks, tasks>>
  /\ UNCHANGED <<sessVars, affVars>>

\* what a suspended task awaits (the sleep, a lookup, the generation, the
\* insert) completes: its continuation joins the queue
P_IoCompletes(t) ==
  /\ t \in DOMAIN tasks
  /\ tasks[t].pc \in {"sleep", "lookup", "generate", "persist"}
  /\ ~tasks[t].queued
  /\ tasks' = [tasks EXCEPT ![t].queued = TRUE]
  /\ ready' = Append(ready, [kind |-> "task", id |-> t])
  /\ UNCHANGED <<_proactive_locks, pro_hist>>
  /\ UNCHANGED <<sessVars, affVars>>

\* _fire_proactive_task (lines 80-95)
_fire_proactive_task(k, arousal) ==
  IF arousal <= PROACTIVE_AROUSAL_THRESHOLD
  THEN /\ ready' = Tail(ready)
       /\ UNCHANGED <<_proactive_locks, tasks, pro_hist>>
  ELSE LET t == Len(tasks) + 1
       IN /\ _proactive_locks' =
               IF k \in DOMAIN _proactive_locks THEN _proactive_locks
               ELSE [x \in DOMAIN _proactive_locks \cup {k} |->
                       IF x = k THEN FALSE ELSE _proactive_locks[x]]
          /\ tasks' = Append(tasks, [key |-> k, pc |-> "created", queued |-> TRUE,
                                     in_window |-> Locked(_proactive_locks, k),
                                     entered |-> FALSE])
          /\ ready' = Append(Tail(ready), [kind |-> "task", id |-> t])
          /\ UNCHANGED pro_hist

\* exit of `async with lock`, the task is finished
Release(t) ==
  /\ _proactive_locks' = [_proactive_locks EXCEPT ![tasks[t].key] = FALSE]
  /\ tasks' = [tasks EXCEPT ![t].pc = "done", ![t].queued = FALSE]

\* faulty variant of _maybe_send_proactive: the return for a character or
\* user that is not found leaves the lock held
MaybeSendProactiveReturnKeepsLock(t, ok) ==
  /\ ready' = Tail(ready)
  /\ CASE tasks[t].pc = "created" ->
            IF _proactive_locks[tasks[t].key]
            THEN /\ tasks' = [tasks EXCEPT ![t].pc = "done", ![t].queued = FALSE]
                 /\ pro_hist' = [pro_hist EXCEPT !.dropped = @ + 1]
                 /\ UNCHANGED _proactive_locks
            ELSE /\ _proactive_locks' = [_proactive_locks EXCEPT ![tasks[t].key] = TRUE]
                 /\ tasks' = [tasks EXCEPT ![t].pc = "sleep", ![t].queued = FALSE,
                                           ![t].entered = TRUE]
                 /\ UNCHANGED pro_hist
       [] tasks[t].pc = "sleep" ->
            /\ tasks' = [tasks EXCEPT ![t].pc = "lookup", ![t].queued = FALSE]
            /\ UNCHANGED <<_proactive_locks, pro_hist>>
       [] tasks[t].pc = "lookup" ->
            IF ok
            THEN /\ tasks' = [tasks EXCEPT ![t].pc = "generate", ![t].queued = FALSE]
                 /\ UNCHANGED <<_proactive_locks, pro_hist>>
            ELSE /\ tasks' = [tasks EXCEPT ![t].pc = "done", ![t].queued = FALSE]
                 /\ UNCHANGED <<_proactive_locks, pro_hist>>
       [] tasks[t].pc = "generate" ->
            IF ok
            THEN /\ tasks' = [tasks EXCEPT ![t].pc = "persist", ![t].queued = FALSE]
                 /\ UNCHANGED <<_proactive_locks, pro_hist>>
            ELSE Release(t) /\ UNCHANGED pro_hist
       [] OTHER ->
            /\ Release(t)
            /\ pro_hist' = IF ok
                           THEN [pro_hist EXCEPT !.persisted[tasks[t].key] = @ + 1]
                           ELSE pro_hist

\* _maybe_send_proactive (lines 98-165) from one await to the next; ok is
\* what the await that just completed produced (a row or None, a result or
\* an exception).  The lock is free when `async with lock` is reached, so
\* its acquire does not suspend.
_maybe_send_proactive(t, ok) ==
  /\ ready' = Tail(ready)
  /\ CASE tasks[t].pc = "created" ->
            IF _proactive_locks[tasks[t].key]
            THEN /\ tasks' = [tasks EXCEPT ![t].pc = "done", ![t].queued = FALSE]
                 /\ pro_hist' = [pro_hist EXCEPT !.dropped = @ + 1]
                 /\ UNCHANGED _proactive_locks
            ELSE /\ _proactive_locks' = [_proactive_locks EXCEPT ![tasks[t].key] = TRUE]
                 /\ tasks' = [tasks EXCEPT ![t].pc = "sleep", ![t].queued = FALSE,
                                           ![t].entered = TRUE]
                 /\ UNCHANGED pro_hist
       [] tasks[t].pc = "sleep" ->
            /\ tasks' = [tasks EXCEPT ![t].pc = "lookup", ![t].queued = FALSE]
            /\ UNCHANGED <<_proactive_locks, pro_hist>>
       [] tasks[t].pc = "lookup" ->
            IF ok
            THEN /\ tasks' = [tasks EXCEPT ![t].pc = "generate", ![t].queued = FALSE]
                 /\ UNCHANGED <<_proactive_locks, pro_hist>>
            ELSE Release(t) /\ UNCHANGED pro_hist
       [] tasks[t].pc = "generate" ->
            IF ok
            THEN /\ tasks' = [tasks EXCEPT ![t].pc = "persist", ![t].queued = FALSE]
                 /\ UNCHANGED <<_proactive_locks, pro_hist>>
            ELSE Release(t) /\ UNCHANGED pro_hist
       [] OTHER ->
            /\ Release(t)
            /\ pro_hist' = IF ok
                           THEN [pro_hist EXCEPT !.persisted[tasks[t].key] = @ + 1]
                           ELSE pro_hist

\* the loop runs the callback at the head of its queue
P_RunRequest ==
  /\ ready # <<>> /\ Head(ready).kind = "request"
  /\ _fire_proactive_task(Head(ready).key, Head(ready).arousal)
  /\ UNCHANGED <<sessVars, affVars>>

P_RunTask(ok) ==
  /\ ready # <<>> /\ Head(ready).kind = "task"
  /\ _maybe_send_proactive(Head(ready).id, ok)
  /\ UNCHANGED <<sessVars, affVars>>

ProNext ==
  \/ \E k \in Keys, arousal \in TriggerArousals : P_RequestArrives(k, arousal)
  \/ \E t \in 1..MaxTriggers : P_IoCompletes(t)
  \/ P_RunRequest
  \/ \E ok \in BOOLEAN : P_RunTask(ok)

(***************************************************************************)
(* The session                                                             *)
(***************************************************************************)
Next ==
  \/ M_AuthTimeout
  \/ \E k \in FirstFrames, cid \in BOOLEAN : M_AuthRecv(k, cid)
  \/ M_RejectClose
  \/ \E e \in ExcKinds : M_Raise(e)
  \/ M_UpsertUser
  \/ \E ch \in Characters \cup SeedRows \cup {NoCharacter} : M_LoadCharacter(ch)
  \/ M_LoadEmotion
  \/ \E memory \in {"ok", "failed"}, news \in {"cached", "none", "failed"} :
       M_LoadContext(memory, news)
  \/ M_Connect
  \/ M_Connected
  \/ M_Greeting
  \/ M_Spawn
  \/ M_ClientDone
  \/ M_GeminiDone
  \/ M_IdleDone
  \/ \E cfg \in BOOLEAN : M_Finally(cfg)
  \/ \E cfg \in BOOLEAN : M_FinClosed(cfg)
  \/ \E p \in {"a", "b"} : R_Closed(p)
  \/ \E p \in {"a", "b"} : R_Slept(p)
  \/ \E p \in {"a", "b"} : R_ConnectRetry(p)
  \/ UpstreamDrop
  \/ Tick
  \/ \E k \in ClientFrames, t \in InTexts, tr \in SUBSET RetrievalTools :
       A_Recv(k, t, tr)
  \/ A_SendOk
  \/ A_SendFail
  \/ A_ReconnectOk
  \/ A_ReconnectFail
  \/ A_Retry
  \/ B_Start
  \/ \E ev \in UpstreamEvents, tr \in SUBSET RetrievalTools :
       \E t \in (IF ev = "input" THEN InTexts ELSE OutTexts) : B_Event(ev, t, tr)
  \/ \E fresh \in BOOLEAN : B_Resumption(fresh)
  \/ B_TurnSent
  \/ \E g \in BOOLEAN : B_StreamEnd(g)
  \/ B_Raise
  \/ B_ExcSlept
  \/ B_ReconnectOk
  \/ B_ReconnectFail
  \/ B_Injected
  \/ B_BurstSlept
  \/ B_BurstSent
  \/ B_Cancelled
  \/ C_Wake
  \/ C_SendDone
  \/ C_Cancelled
  \/ \E i \in 1..MaxScans : S_Start(i)
  \/ \E i \in 1..MaxScans, o \in {"result", "empty", "raise"} : S_ToolDone(i, o)
  \/ \E i \in 1..MaxScans : S_Injected(i)

(***************************************************************************)
(* The affect functions applied by their callers: the live session         *)
(* (ws_handler.py) and the text chat (message_routes.py, gemini_chat.py)   *)
(***************************************************************************)
\* a character row whose bias the familiarity gate suppresses
NewNemesis == [found |-> TRUE, relationship_type |-> "Nemesis", familiarity_level |-> 3,
               mbti |-> "INTP", last_ai |-> "none"]

\* the character rows of the callers: those of the session, a row without
\* relationship, one with a neutral bias, one gated by the text length
AffCharacters ==
  Characters \cup
  { NewNemesis,
    [found |-> TRUE, relationship_type |-> "", familiarity_level |-> 5,
     mbti |-> "", last_ai |-> "none"],
    [found |-> TRUE, relationship_type |-> "Stranger", familiarity_level |-> 8,
     mbti |-> "ENFP", last_ai |-> "none"],
    [found |-> TRUE, relationship_type |-> "Best Friend", familiarity_level |-> 4,
     mbti |-> "", last_ai |-> "none"] }

AffTexts == {TextHaha, TextWow, TextPlain, TextBlank}

\* the arguments apply_inertia is applied to: a familiarity of each band,
\* and as new state the previous one ("") or that of a label
AffFamiliarities == {3, 5, 8}
AffNewLabels == {"", "happy"}

\* memory_worker.VALID_RELATIONSHIP_TYPES
VALID_RELATIONSHIP_TYPES ==
  {"Romantic Partner", "Ex-Partner", "Best Friend", "Friend", "Mentor",
   "Companion", "Confidant", "Rival", "Frenemy", "Nemesis", "Critic",
   "Stranger", "Acquaintance", "Colleague", "Study Buddy", "Advisor"}

\* what a run of adjust_relationship leaves behind: the row it loaded, the
\* analysis it was given and the fields it passed to repo.update.  In
\* the analysis a key is "absent" or "present"; the familiarity is a
\* number in tenths ("num"), a JSON string ("text") or NaN ("nan")
NoAdjust ==
  [before |-> NoCharacter,
   result |-> [ok |-> FALSE, changed |-> FALSE, relationship_type |-> "",
               familiarity_level |-> [kind |-> "absent", tenths |-> 0]],
   update_fields |-> {}]

\* mbti and mod: the code label_to_circumplex was given and what
\* _apply_mbti_modifiers returned to it
NoCall == [fn |-> "", text |-> TextBlank, prev |-> NoPrevState, new_label |-> "",
           relationship_type |-> "", familiarity_level |-> 0, label |-> "",
           mbti |-> "", adj |-> NoAdjust, mod |-> <<0, 0>>, out |-> NoPrevState]

\* no caller
AffIdle == [character |-> NoCharacter, emotion |-> NoPrevState, calls |-> 0,
            call |-> NoCall]

\* message_routes._load_prev_emotion
_load_prev_emotion(ch) ==
  IF ch.last_ai = "stored" THEN StoredEmotion
  ELSE IF ch.last_ai = "label_only" THEN LabelOnlyEmotion
       ELSE NoPrevState

\* the state a caller holds before its first call: the live session seeds
\* SessionState.current_emotion, the text chat loads the previous emotion
AffInit ==
  \E ch \in AffCharacters :
    \E seed \in {SeedEmotion(ch, InitialSessionState.current_emotion),
                 _load_prev_emotion(ch)} :
      aff = [character |-> ch, emotion |-> seed, calls |-> 0, call |-> NoCall]

\* classify_to_circumplex(text, relationship_type=.., familiarity_level=..,
\* mbti=.., prev_state=..); the caller keeps the result as its next
\* previous state
Aff_Classify(text) ==
  /\ aff.character.found
  /\ aff.calls < MaxCalls
  /\ LET ch == aff.character
     IN \E out \in classify_to_circumplex(text, ch.relationship_type,
                                          ch.familiarity_level, ch.mbti, aff.emotion) :
          aff' = [aff EXCEPT
                    !.emotion = out,
                    !.calls = @ + 1,
                    !.call = [fn |-> "classify_to_circumplex", text |-> text,
                              prev |-> aff.emotion, new_label |-> "",
                              relationship_type |-> ch.relationship_type,
                              familiarity_level |-> ch.familiarity_level,
                              label |-> classify_emotion_heuristic(
                                          text, ch.relationship_type,
                                          ch.familiarity_level),
                              mbti |-> "", adj |-> NoAdjust, mod |-> <<0, 0>>, out |-> out]]
  /\ UNCHANGED <<sessVars, proVars>>

\* the new states apply_inertia is applied to
NewState(new_label, prev, mbti) ==
  IF new_label = "" THEN {prev} ELSE label_to_circumplex(new_label, mbti)

\* apply_inertia(prev, new, familiarity_level) on the state the caller holds
Aff_Inertia(new_label, familiarity_level) ==
  /\ aff.character.found
  /\ aff.emotion # NoPrevState
  /\ \E new \in NewState(new_label, aff.emotion, aff.character.mbti) :
       \E out \in apply_inertia(aff.emotion, new, familiarity_level) :
         aff' = [aff EXCEPT
                   !.call = [fn |-> "apply_inertia", text |-> TextBlank,
                             prev |-> aff.emotion, new_label |-> new_label,
                             relationship_type |-> "",
                             familiarity_level |-> familiarity_level,
                             label |-> "", mbti |-> "", adj |-> NoAdjust, mod |-> <<0, 0>>,
                             out |-> out]]
  /\ UNCHANGED <<sessVars, proVars>>

\* the arguments classify_emotion_heuristic is applied to: texts without a
\* keyword on both sides of the length of 20, relationship types with a
\* bias, with the neutral bias, outside the table and absent, and the
\* familiarities around the two gates
HeurTexts ==
  AffTexts \cup { [kws |-> {}, len |-> 20, blank |-> FALSE],
                  [kws |-> {}, len |-> 21, blank |-> FALSE] }
HeurRelationships == {"Nemesis", "Best Friend", "Stranger", "Pen Pal", ""}
HeurFamiliarities == {0, 3, 4, 6, 7, 8, 10}

\* classify_emotion_heuristic(text, relationship_type, familiarity_level)
Aff_Heuristic(text, relationship_type, familiarity_level) ==
  /\ aff' = [aff EXCEPT
              !.call = [fn |-> "classify_emotion_heuristic", text |-> text,
                        prev |-> NoPrevState, new_label |-> "",
                        relationship_type |-> relationship_type,
                        familiarity_level |-> familiarity_level,
                        label |-> classify_emotion_heuristic(
                                    text, relationship_type, familiarity_level),
                        mbti |-> "", adj |-> NoAdjust, mod |-> <<0, 0>>, out |-> NoPrevState]]
  /\ UNCHANGED <<sessVars, proVars>>

\* label_to_circumplex(label, mbti); the function keeps no state, so one
\* application per behaviour shows all of it
Aff_Modulate(label, mbti) ==
  /\ aff.call.fn = ""
  /\ LET e == EMOTION_MAP[EmotionIndex(label)]
     IN \E out \in label_to_circumplex(label, mbti) :
          aff' = [aff EXCEPT
                    !.call = [fn |-> "label_to_circumplex", text |-> TextBlank,
                              prev |-> NoPrevState, new_label |-> "",
                              relationship_type |-> "", familiarity_level |-> 0,
                              label |-> label, mbti |-> mbti,
                              adj |-> NoAdjust, mod |-> _apply_mbti_modifiers(e[2], e[3], mbti),
                              out |-> out]]
  /\ UNCHANGED <<sessVars, proVars>>

\* the arguments label_to_circumplex is applied to: every label of the
\* table and one outside it; no code, short codes, the sixteen types, a
\* lower-case code and codes with letters outside E/I and F/T
ModNext ==
  \E l \in { EMOTION_MAP[i][1] : i \in 1..Len(EMOTION_MAP) } \cup {"sleepy"},
     c \in {"", "XXXX"} \cup MbtiShort \cup MbtiE \cup MbtiI \cup MbtiF \cup MbtiT :
    Aff_Modulate(l, c)

\* classify_to_circumplex on arguments of the caller's choice; the
\* function keeps no state, so one application per behaviour shows all
Aff_ClassifyOn(text, relationship_type, familiarity_level, mbti, prev_state) ==
  /\ aff.call.fn = ""
  /\ \E out \in classify_to_circumplex(text, relationship_type,
                                       familiarity_level, mbti, prev_state) :
       aff' = [aff EXCEPT
                 !.call = [fn |-> "classify_to_circumplex", text |-> text,
                           prev |-> prev_state, new_label |-> "",
                           relationship_type |-> relationship_type,
                           familiarity_level |-> familiarity_level,
                           label |-> classify_emotion_heuristic(
                                       text, relationship_type, familiarity_level),
                           mbti |-> mbti, adj |-> NoAdjust, mod |-> <<0, 0>>, out |-> out]]
  /\ UNCHANGED <<sessVars, proVars>>

\* the arguments: the texts and codes of above, no previous state, one
\* inside the ranges, and previous states (an EmotionState is built from
\* a stored row without a check of its numbers) outside them on either
\* side, with a neutral and with another label
ClassifyNext ==
  \E t \in AffTexts, r \in {"Nemesis", ""}, f \in {3, 8},
     c \in {"", "IT", "ENFP", "ISTJ"},
     p \in { NoPrevState, StoredEmotion,
             [valence |-> 1400, arousal |-> -400, label |-> "excited", intensity |-> "high"],
             [valence |-> -1400, arousal |-> 1400, label |-> "neutral", intensity |-> "low"] } :
    Aff_ClassifyOn(t, r, f, c, p)

\* faulty variant of new_familiarity: the delta is not clamped to +-1
NewFamiliarityAnyDelta(current_familiarity, familiarity_level) ==
  LET t == familiarity_level.tenths
      parsed ==
        IF familiarity_level.kind = "num"
        THEN IF t >= 0 THEN t \div 10 ELSE -((-t) \div 10)
        ELSE current_familiarity
      lo == IF 10 < parsed THEN 10 ELSE parsed
  IN IF 1 > lo THEN 1 ELSE lo

\* lines 335-346: the familiarity of the analysis, or the current one when
\* the key is missing or not a number; int() truncates toward zero; the
\* delta is clamped to +-1 and the result to 1..10
new_familiarity(current_familiarity, familiarity_level) ==
  LET t == familiarity_level.tenths
      parsed ==
        IF familiarity_level.kind = "num"
        THEN IF t >= 0 THEN t \div 10 ELSE -((-t) \div 10)
        ELSE current_familiarity
      delta == parsed - current_familiarity
      clamped == IF delta > 1 THEN current_familiarity + 1
                 ELSE IF delta < -1 THEN current_familiarity - 1
                      ELSE parsed
      lo == IF 10 < clamped THEN 10 ELSE clamped
  IN IF 1 > lo THEN 1 ELSE lo

\* memory_worker.adjust_relationship on the stored row aff.character: n is
\* len(transcript), d the number of stored messages, result the analysis
\* (ok FALSE: generate_content raised or its text was no JSON object with
\* the keys read; an int() of NaN raises as well).  One run per behaviour.
adjust_relationship ==
  /\ aff.call.fn = ""
  /\ \E n \in {2, 6}, d \in {0, 2, 4},
        ok \in BOOLEAN, changed \in BOOLEAN,
        rt \in {"", "Friend", "Nemesis", "Soulmate"},
        fl \in { [kind |-> "absent", tenths |-> 0], [kind |-> "text", tenths |-> 0],
                 [kind |-> "nan", tenths |-> 0] } \cup
               { [kind |-> "num", tenths |-> t] :
                   t \in {-30, -5, 0, 10, 20, 40, 50, 57, 60, 90, 100, 109, 120} } :
       LET character == aff.character
           result == [ok |-> ok, changed |-> changed, relationship_type |-> rt,
                      familiarity_level |-> fl]
           current_type == IF character.relationship_type = "" THEN "Friend"
                           ELSE character.relationship_type
           current_familiarity == IF character.familiarity_level = 0 THEN 5
                                  ELSE character.familiarity_level
           analysis_transcript == IF n < 5 /\ d > 0 THEN d ELSE n
           new_type == IF rt \in VALID_RELATIONSHIP_TYPES THEN rt ELSE current_type
           nf == new_familiarity(current_familiarity, fl)
           update_fields ==
             IF \/ ~character.found
                \/ analysis_transcript < 3
                \/ ~ok
                \/ ~changed
                \/ fl.kind = "nan"
             THEN {}
             ELSE (IF new_type # current_type THEN {"relationship_type"} ELSE {})
                  \cup (IF nf # current_familiarity THEN {"familiarity_level"} ELSE {})
       IN aff' = [aff EXCEPT
                    !.character =
                      [@ EXCEPT
                         !.relationship_type =
                           IF "relationship_type" \in update_fields THEN new_type ELSE @,
                         !.familiarity_level =
                           IF "familiarity_level" \in update_fields THEN nf ELSE @],
                    !.call = [NoCall EXCEPT
                                !.fn = "adjust_relationship",
                                !.adj = [before |-> character, result |-> result,
                                         update_fields |-> update_fields]]]
  /\ UNCHANGED <<sessVars, proVars>>

HeurNext ==
  \E t \in HeurTexts, r \in HeurRelationships, f \in HeurFamiliarities :
    Aff_Heuristic(t, r, f)

AffNext ==
  \/ \E t \in AffTexts : Aff_Classify(t)
  \/ \E l \in AffNewLabels, f \in AffFamiliarities : Aff_Inertia(l, f)

\* the environment of a session that is never opened
NoSession ==
  [ticks |-> 0, frames |-> 0, events |-> 0, fails |-> 0, drops |-> 0,
   conns |-> 0, rows |-> {}, handles |-> 0, client |-> {},
     memory |-> {"ok"}, news |-> {"none"}, scans |-> 0,
     upstream |-> UpstreamEvents]

vars == <<sessVars, proVars, affVars>>

Init == SessInit /\ ProInit /\ aff = AffIdle

Spec == Init /\ [][Next]_vars

\* the affect functions on their own
InitAffect == SessInitOf({NoSession}) /\ ProInit /\ AffInit

SpecAffect == InitAffect /\ [][AffNext]_vars

\* the keyword heuristic on its own
SpecHeuristic == InitAffect /\ [][HeurNext]_vars

\* the personality modulation on its own
SpecModulation == InitAffect /\ [][ModNext]_vars

\* classify_to_circumplex on its own
SpecClassify == InitAffect /\ [][ClassifyNext]_vars

\* the rows adjust_relationship runs on: no row, and rows of every
\* familiarity the schema admits (Field(ge=1, le=10)), without a
\* relationship type and with one
InitAdjust ==
  /\ SessInitOf({NoSession}) /\ ProInit
  /\ \E ch \in {NoCharacter} \cup
                { [found |-> TRUE, relationship_type |-> r, familiarity_level |-> f,
                   mbti |-> "", last_ai |-> "none"] :
                    r \in {"", "Friend", "Nemesis"}, f \in 1..10 } :
       aff = [character |-> ch, emotion |-> NoPrevState, calls |-> 0, call |-> NoCall]

\* the relationship adjustment on its own
SpecAdjust == InitAdjust /\ [][adjust_relationship]_vars

SpecProactive == Init /\ [][ProNext]_vars

\* the event loop runs the callback at the head of its queue, and what a
\* task awaits (a sleep of at most 25 s, a query, a request) ends, with a
\* result or with an exception
FairProactive ==
  /\ SpecProactive
  /\ WF_vars(P_RunRequest)
  /\ WF_vars(\E ok \in BOOLEAN : P_RunTask(ok))
  /\ \A t \in 1..MaxTriggers : WF_vars(P_IoCompletes(t))

\* the session, explored under the long dialogue as well
InitDialogue ==
  SessInitOf(Profiles \cup {LongDialogue}) /\ ProInit /\ aff = AffIdle

SpecDialogue == InitDialogue /\ [][Next]_vars

\* The event loop runs every task that is ready: a cancelled task gets its
\* CancelledError at the await it is suspended in, an awaited task that has
\* finished wakes its awaiter, and the awaits of the finally block return.
Teardown ==
  \/ M_RejectClose
  \/ M_ClientDone
  \/ M_GeminiDone
  \/ M_IdleDone
  \/ B_Cancelled
  \/ C_Cancelled
  \/ \E cfg \in BOOLEAN : M_Finally(cfg)
  \/ \E cfg \in BOOLEAN : M_FinClosed(cfg)

FairSpec == Spec /\ WF_vars(Teardown)

\* the event loop also runs every _proactive_search task it was given,
\* and the tool and the injection such a task awaits return or raise
FairScans ==
  /\ FairSpec
  /\ \A i \in 1..MaxScans :
       /\ WF_vars(S_Start(i))
       /\ WF_vars(\E o \in {"result", "empty", "raise"} : S_ToolDone(i, o))
       /\ WF_vars(S_Injected(i))

(***************************************************************************)
(* Properties                                                              *)
(***************************************************************************)
\* the adapter has no upstream connection and no reconnect in progress
AdapterNeverOpened == up.next = 1 /\ gem = InitialGem /\ ~state.gemini_session

\* C1: the end of the event stream never ends the session.  Routine (b)
\* leaves its receive loop at a stream end only into reconnect() (directly,
\* or through the one-second pause of its exception handler), unless it is
\* cancelled; a reconnect() that returns true leaves a connection that was
\* not open before, and routine (b) then iterates exactly the adapter's
\* current connection (after a turn frame it goes on with the iteration it
\* was in); routine (b) ends only cancelled after routine (a) returned or
\* after a reconnect() was exhausted, and the endpoint leaves phase 4 only
\* after routine (a) returned.
C1_StreamEndReconnects ==
  /\ [](b_pc = "done" =>
          \/ hist.b_exit = "cancelled" /\ a_pc = "done"
          \/ hist.b_exit = "exhausted" /\ hist.exhausted \cap {"b_turn", "b_exc"} # {})
  /\ []((b_pc # "unborn" /\ m_pc # "await_client") => a_pc = "done")
  /\ [][(b_pc = "recv" /\ b_pc' \notin {"recv", "turn_sent"}) =>
          \/ b_pc' \in {"reconnect", "exc_sleep"}
          \/ cancelReq["b"] /\ b_pc' = "done"]_vars
  /\ [][(b_pc = "reconnect" /\ b_pc' \in {"recv", "injecting", "burst_sleep"}) =>
          /\ gem'.session # 0 /\ gem'.session \notin up.open
          /\ gem'.session \in up'.open]_vars
  /\ [][(b_pc \notin {"recv", "turn_sent"} /\ b_pc' = "recv") =>
          gem'.session # 0 /\ b_loc'.conn = gem'.session]_vars

\* routine (b) receives on a second connection while the session runs
C1_Witness ==
  /\ b_pc = "recv" /\ b_loc.conn > 1 /\ b_loc.conn \in up.open
  /\ a_pc = "recv" /\ state.running /\ m_pc = "await_client"

\* frames that report the loss of the upstream connection, under the name
\* the specification gives the code or the name the program gives it
DisconnectFrames ==
  Cardinality({i \in DOMAIN ws.errors :
                 ws.errors[i] \in {"UPSTREAM_DISCONNECTED", DISCONNECT_CODE}})

\* C2: whenever reconnect() has returned false, in any of its three call
\* sites, the client has been sent exactly one error frame reporting the
\* lost upstream connection.
C2_ExhaustionEmitsOneError ==
  hist.exhausted # {} => DisconnectFrames = 1

\* C3 as stated: once the session that routine (a) ended is closed, a
\* non-empty transcript buffer has been handed to the memory pipeline
\* exactly once.
C3_TranscriptAlwaysHandedOver ==
  (m_pc = "closed" /\ a_pc = "done" /\ state.transcript_buffer # <<>>) =>
    hist.memory_tasks = 1

\* C3, amended: after routine (a) returns the session reaches its closed
\* state; there routines (b) and (c) have ended, no reconnect() is in
\* progress, the running flag is false, the adapter is not running, the
\* channel is closed, and the transcript buffer has been handed to the
\* memory pipeline once if it is non-empty and the memory store is
\* configured, and not at all otherwise; nothing touches the adapter after.
C3_ReturnOfAClosesSession ==
  /\ (a_pc = "done") ~> (m_pc = "closed")
  /\ []((m_pc = "closed" /\ a_pc = "done") =>
          /\ b_pc = "done" /\ c_pc = "done"
          /\ \A p \in DOMAIN rc : rc[p].pc = "idle"
          /\ ~state.running /\ ~gem.running /\ ws.closed
          /\ settings # "unread"
          /\ hist.memory_tasks =
               IF state.transcript_buffer # <<>> /\ settings = Settings(TRUE)
               THEN 1 ELSE 0)
  /\ [][m_pc = "closed" => UNCHANGED <<gem, up, hist>>]_vars

\* a session with a transcript was closed with the memory store configured
C3_Witness ==
  /\ m_pc = "closed" /\ a_pc = "done" /\ hist.memory_tasks = 1
  /\ state.transcript_buffer # <<>> /\ settings = Settings(TRUE)

\* C4: between two user-activity events at most one output transcript is
\* classified; the current EmotionState changes during streaming only in a
\* step that finds the interaction-pending flag set and clears it.
C4_ClassifyOncePerUserTurn ==
  /\ [](hist.classified <= 1)
  /\ [](hist.classified = 1 => ~state.user_interacted_since_last_emotion)
  /\ [][(b_pc # "unborn" /\ state'.current_emotion # state.current_emotion) =>
          /\ state.user_interacted_since_last_emotion
          /\ ~state'.user_interacted_since_last_emotion]_vars
  /\ [][hist'.classified > hist.classified =>
          /\ state.user_interacted_since_last_emotion
          /\ ~state'.user_interacted_since_last_emotion]_vars

\* two output transcripts arrived with no user activity in between: the
\* first was classified, the second kept the EmotionState
C4_Witness ==
  /\ hist.classified = 1
  /\ Len(state.transcript_buffer) = 2
  /\ \A i \in 1..2 : state.transcript_buffer[i].role = "model"
  /\ state.transcript_buffer[1].emotion = state.transcript_buffer[2].emotion

UserFrameHandled ==
  /\ a_pc \in {"recv", "sending", "retry_sleep"}
  /\ UNCHANGED <<b_pc, b_loc>>
  /\ state'.user_interacted_since_last_emotion
  /\ state'.last_activity_time = now

C6_OneExecutionPerWindow ==
  \A k \in Keys :
    pro_hist.persisted[k] <=
      Cardinality({t \in DOMAIN tasks : tasks[t].key = k /\ ~tasks[t].in_window})

\* C7: when the wait for the first frame reaches 10 seconds the endpoint
\* takes the timeout path and no other, and not before; on that path
\* exactly one error frame, with code TIMEOUT, is sent, no auth_ok is sent,
\* the adapter is never opened, and the channel is then closed.
C7_AuthTimeout ==
  /\ [](hist.first = "timeout" =>
          /\ ws.errors = <<"TIMEOUT">> /\ ws.auth_ok = 0
          /\ AdapterNeverOpened
          /\ m_pc \in {"finally", "closed"}
          /\ a_pc = "unborn" /\ b_pc = "unborn" /\ c_pc = "unborn")
  /\ [][(m_pc = "auth_wait" /\ m_pc' # "auth_wait") =>
          (hist'.first = "timeout" <=> now >= AUTH_TIMEOUT)]_vars
  /\ [][(hist'.first = "timeout" /\ hist.first # "timeout") => ~ws.closed]_vars
  /\ (hist.first = "timeout") ~> (ws.closed /\ m_pc = "closed")

\* the timed-out session has been closed
C7_Witness ==
  hist.first = "timeout" /\ ws.closed /\ now >= AUTH_TIMEOUT

\* first frames that are no auth frame: of another type or of none, or
\* malformed (no JSON, no JSON object, auth without payload.device_id)
WrongTypeFirst == {"audio", "text", "control", "no_type"}
MalformedFirst == {"bad_json", "not_object", "auth_no_device"}

\* C8: after a first frame that is no auth frame, no auth_ok is sent, no
\* user is looked up, no routine is started, the adapter is never opened,
\* exactly one error frame is sent and the channel is closed; the frame is
\* AUTH_REQUIRED for a well-formed frame of another type and INTERNAL for a
\* malformed one.
C8_NonAuthFirstFrameRejected ==
  /\ [](hist.first \in WrongTypeFirst \cup MalformedFirst =>
          /\ ws.auth_ok = 0 /\ state.user_id = ""
          /\ AdapterNeverOpened
          /\ a_pc = "unborn" /\ b_pc = "unborn" /\ c_pc = "unborn"
          /\ m_pc \in {"reject_close", "finally", "closed"})
  /\ [](hist.first \in WrongTypeFirst => ws.errors = <<"AUTH_REQUIRED">>)
  /\ [](hist.first \in MalformedFirst => ws.errors = <<"INTERNAL">>)
  /\ (hist.first \in WrongTypeFirst \cup MalformedFirst) ~> (ws.closed /\ m_pc = "closed")

\* a well-formed first frame of another type was rejected and the channel closed
C8_Witness ==
  hist.first = "text" /\ ws.closed /\ ws.errors = <<"AUTH_REQUIRED">>

ReturnedFalse == hist'.exhausted # hist.exhausted

\* a reconnect() returned true in this step
ReturnedTrue ==
  \/ a_pc = "reconnect" /\ a_pc' = "retry_sleep"
  \/ b_pc = "reconnect" /\ b_pc' \notin {"reconnect", "done"}

\* C10: reconnect() makes at most 3 attempts, every connect of it follows a
\* close, it returns false only from its third attempt and then leaves the
\* adapter not running, and it leaves the adapter running when it returns
\* true.
C10_ReconnectContract ==
  /\ [](\A p \in DOMAIN rc : rc[p].attempt <= RECONNECT_MAX_RETRIES)
  /\ [][\A p \in {"a", "b"} :
          (rc'[p].pc = "connecting" /\ rc[p].pc # "connecting") =>
            (rc[p].pc \in {"closing", "sleep"} \/ gem.cm = 0)]_vars
  /\ [][ReturnedTrue => gem'.running]_vars
  /\ [][ReturnedFalse =>
          /\ \E p \in {"a", "b"} : rc[p].attempt = RECONNECT_MAX_RETRIES /\ rc'[p] = IdleRc
          /\ ~gem'.running]_vars

\* the last send attempt of a frame raised and routine (a) takes the next frame
FrameAbandoned ==
  a_pc = "sending" /\ a_loc.conn \notin up.open /\ a_pc' = "recv"

\* C11: a frame is sent at most 3 times, a further send attempt follows only
\* a reconnect() that returned true and the fixed delay, and a frame whose
\* send has raised is not left without an error frame reporting the lost
\* upstream connection being sent to the client.
C11_FailedSendRetriedOrReported ==
  /\ [](a_pc \in {"sending", "reconnect", "retry_sleep"} =>
          a_loc.attempt < SEND_MAX_RETRIES)
  /\ [][(a_pc' = "sending" /\ a_loc'.attempt > a_loc.attempt) =>
          a_pc = "retry_sleep"]_vars
  /\ [][(a_pc' = "retry_sleep" /\ a_pc # "retry_sleep") => ReturnedTrue]_vars
  /\ [][FrameAbandoned => DisconnectFrames' > DisconnectFrames]_vars

\* C12: every connect() presents the last non-empty handle that a
\* session-resumption update carried (none before the first); the stored
\* handle changes only to the handle of the update being received, and is
\* never cleared.
C12_ConnectPresentsLastHandle ==
  /\ [](gem.session_handle = hist.last_handle)
  /\ [][up'.next > up.next => up'.presented = hist.last_handle]_vars
  /\ [][gem'.session_handle # gem.session_handle =>
          /\ gem'.session_handle # 0
          /\ hist'.last_handle # hist.last_handle
          /\ gem'.session_handle = hist'.last_handle]_vars

\* a later connect() presented the second handle the stream had carried
C12_Witness ==
  /\ up.presented = MaxHandles /\ hist.last_handle = MaxHandles
  /\ up.next > 2 /\ gem.running

\* the reconnect() of a turn boundary returned true in this step
TurnReconnectReturnedTrue ==
  b_pc = "reconnect" /\ rc["b"].ret = "b_turn" /\ b_pc' \notin {"reconnect", "done"}

\* the burst rule was evaluated in this step, with an effect
BurstEvaluated ==
  \/ b_pc' = "burst_sleep" /\ b_pc # "burst_sleep"
  \/ state'.burst_cooldown_until # state.burst_cooldown_until

\* lines are the last entries of buf, at most 20 of them, in their order
IsLastEntriesOf(lines, buf) ==
  /\ Len(lines) = (IF Len(buf) < 20 THEN Len(buf) ELSE 20)
  /\ \A k \in 1..Len(lines) :
       LET entry == buf[Len(buf) - Len(lines) + k]
       IN /\ lines[k].text = entry.text
          /\ lines[k].role = "yonghu" <=> entry.role = "user"

\* C13: when the reconnect() of a turn boundary returns true, routine (b)
\* sends one context message if the transcript is not empty, made of its
\* last entries (at most 20) in their order and with turn_complete false,
\* and none if it is empty; a context message is sent at no other point,
\* and the burst rule is evaluated only once that send has returned, or at
\* once when the transcript is empty.
C13_ContextInjectedAfterTurnReconnect ==
  /\ [][TurnReconnectReturnedTrue =>
          IF state.transcript_buffer # <<>>
          THEN /\ b_pc' = "injecting"
               /\ ~b_loc'.context.turn_complete
               /\ IsLastEntriesOf(b_loc'.context.lines, state.transcript_buffer)
          ELSE b_pc' # "injecting"]_vars
  /\ [][(b_pc' = "injecting" /\ b_pc # "injecting") => TurnReconnectReturnedTrue]_vars
  /\ [][BurstEvaluated =>
          \/ b_pc = "injecting"
          \/ TurnReconnectReturnedTrue /\ state.transcript_buffer = <<>>]_vars

\* a context message of 20 lines is being sent for a longer transcript
C13_Witness ==
  /\ b_pc = "injecting" /\ Len(state.transcript_buffer) > 20
  /\ Len(b_loc.context.lines) = 20 /\ ~b_loc.context.turn_complete

\* an awaited send_audio returns in this step
AudioHanded ==
  /\ a_pc = "sending" /\ a_loc.type = "audio" /\ a_loc.conn \in up.open
  /\ <<a_pc, a_loc>>' # <<a_pc, a_loc>>

\* C14: every audio payload handed to the upstream connection is that of a
\* frame the client sent, and of a later frame than the payload handed
\* before it: what the connection is handed is a subsequence of what the
\* client sent.
C14_AudioInClientOrder ==
  /\ [][AudioHanded =>
          /\ a_loc.seq > up.last_audio
          /\ a_loc.seq <= hist.client_frames
          /\ up'.last_audio = a_loc.seq]_vars
  /\ [][up'.last_audio # up.last_audio => AudioHanded]_vars
  /\ [](up.last_audio <= hist.client_frames)

\* the second audio frame was handed over after the first, on a retried send
C14_Witness ==
  /\ up.last_audio = 2 /\ a_loc.seq = 2 /\ a_loc.attempt > 0 /\ a_pc = "recv"

\* label and intensity of e are what its stored coordinates discretize to
IsDiscretization(e) ==
  /\ e.label \in _nearest_label(e.valence * UNIT, e.arousal * UNIT)
  /\ e.intensity = _intensity_from_arousal(e.arousal * UNIT)

\* C15: in every session state the label of the current EmotionState is the
\* canonical label nearest to its (valence, arousal) and its intensity is low
\* below 0.35, mid up to 0.65 and high above, for the seeded state and for
\* every state produced by classify.
C15_EmotionIsDiscretization == IsDiscretization(state.current_emotion)

\* the outcomes of blending prev and new with the weights w (twentieths):
\* each coordinate the weighted average, label and intensity recomputed
BlendWith(prev, new, w) ==
  LET vU == prev.valence * w[1] + new.valence * w[2]
      aU == prev.arousal * w[1] + new.arousal * w[2]
  IN { [valence |-> v, arousal |-> a, label |-> l,
        intensity |-> _intensity_from_arousal(aU)] :
         v \in Round3(vU), a \in Round3(aU), l \in _nearest_label(vU, aU) }

\* the new states of the last call: of the heuristic label for classify,
\* the argument for the blend
NewStatesOfCall ==
  IF aff.call.fn = "classify_to_circumplex"
  THEN label_to_circumplex(
         classify_emotion_heuristic(aff.call.text, aff.character.relationship_type,
                                    aff.character.familiarity_level),
         aff.character.mbti)
  ELSE NewState(aff.call.new_label, aff.call.prev, aff.character.mbti)

WeightsByFamiliarity(familiarity_level) ==
  IF familiarity_level >= 8 THEN <<7, 13>>
  ELSE IF familiarity_level >= 5 THEN <<10, 10>>
  ELSE <<13, 7>>

\* C16: when classify is given a previous state whose label is not neutral,
\* the result is the blend of the previous and the new state with the
\* weights of the familiarity passed to classify: (0.35, 0.65) from 8 on,
\* (0.50, 0.50) from 5 to 7, (0.65, 0.35) below 5.
C16_ClassifyBlendsByFamiliarity ==
  (/\ aff.call.fn = "classify_to_circumplex"
   /\ aff.call.prev # NoPrevState
   /\ aff.call.prev.label # "neutral")
  => \E new \in NewStatesOfCall :
       aff.call.out \in BlendWith(aff.call.prev, new,
                                  WeightsByFamiliarity(aff.call.familiarity_level))

\* C17: whenever the previous state's label is neutral, the blend uses the
\* weights (0.3 previous, 0.7 new), whatever the familiarity level, in a
\* call of the blend as in a call of classify.
C17_EscapeFromNeutral ==
  (/\ aff.call.fn # ""
   /\ aff.call.prev # NoPrevState
   /\ aff.call.prev.label = "neutral")
  => \E new \in NewStatesOfCall :
       aff.call.out \in BlendWith(aff.call.prev, new, <<6, 14>>)

\* a neutral previous state was blended with the state of happy at a
\* familiarity below 5, whose own weights would have given another result
C17_Witness ==
  /\ aff.call.fn = "apply_inertia" /\ aff.call.prev.label = "neutral"
  /\ aff.call.familiarity_level = 3 /\ aff.call.new_label = "happy"
  /\ aff.calls > 0
  /\ \A new \in NewStatesOfCall :
       aff.call.out \notin BlendWith(aff.call.prev, new, WeightsByFamiliarity(3))

\* C18: the blend is idempotent when previous = new: for every
\* EmotionState that seeding or classify produced and every familiarity,
\* blending the state with itself returns it unchanged.
C18_BlendIdempotent ==
  (aff.call.fn = "apply_inertia" /\ aff.call.new_label = "")
  => aff.call.out = aff.call.prev

\* C19: intensity is a function of arousal alone with the closed mid band
\* [0.35, 0.65]: low below 0.35, mid from 0.35 to 0.65 inclusive, high
\* above (0.2 low; 0.35, 0.5, 0.65 mid; just above 0.65 and 0.8 high), and
\* every EmotionState classify returns has the intensity the function
\* gives for the arousal it returns.
C19_IntensityOfReturnedArousal ==
  /\ _intensity_from_arousal(200 * UNIT) = "low"
  /\ _intensity_from_arousal(350 * UNIT - 1) = "low"
  /\ _intensity_from_arousal(350 * UNIT) = "mid"
  /\ _intensity_from_arousal(500 * UNIT) = "mid"
  /\ _intensity_from_arousal(650 * UNIT) = "mid"
  /\ _intensity_from_arousal(650 * UNIT + 1) = "high"
  /\ _intensity_from_arousal(800 * UNIT) = "high"
  /\ aff.call.fn = "classify_to_circumplex"
       => aff.call.out.intensity = _intensity_from_arousal(aff.call.out.arousal * UNIT)

\* the text matches no keyword and the character has no applicable bias:
\* no relationship type, an unknown one, one whose bias is neutral, or a
\* bias that the familiarity gate suppresses
NoMatchNoBias(text, ch) ==
  /\ \A i \in 1..Len(EMOTION_KEYWORDS) : text.kws \cap EMOTION_KEYWORDS[i][2] = {}
  /\ \/ ch.relationship_type = ""
     \/ RELATIONSHIP_EMOTION_BIAS(ch.relationship_type) \in {"", "neutral"}
     \/ ch.familiarity_level < 4
     \/ ch.familiarity_level < 7 /\ text.len <= 20

\* C20 as stated: for every text with no keyword match and no applicable
\* relationship bias, classify returns an EmotionState whose label is
\* neutral, for every personality code and every previous state.
C20_NeutralForEveryPrevious ==
  (/\ aff.call.fn = "classify_to_circumplex"
   /\ NoMatchNoBias(aff.call.text, aff.character))
  => aff.call.out.label = "neutral"

\* C20, amended: for every text with no keyword match and no applicable
\* relationship bias the heuristic label is neutral, and classify returns
\* an EmotionState whose label is neutral, for every personality code,
\* when it is given no previous state or one whose label is neutral; a
\* previous state of another label is blended in and can decide the label.
C20_NeutralWithoutOrAfterNeutral ==
  (/\ aff.call.fn = "classify_to_circumplex"
   /\ NoMatchNoBias(aff.call.text, aff.character))
  => /\ classify_emotion_heuristic(aff.call.text, aff.character.relationship_type,
                                   aff.character.familiarity_level) = "neutral"
     /\ (aff.call.prev = NoPrevState \/ aff.call.prev.label = "neutral")
          => aff.call.out.label = "neutral"

\* a long text without keywords was classified for a character whose bias
\* the familiarity gate suppresses, after a neutral state, and came out
\* neutral at other coordinates
C20_Witness ==
  /\ aff.call.fn = "classify_to_circumplex" /\ aff.call.text = TextPlain
  /\ aff.character = NewNemesis
  /\ aff.call.prev # NoPrevState /\ aff.call.prev.label = "neutral"
  /\ aff.call.out.label = "neutral" /\ aff.call.out # aff.call.prev

\* C21: when no keyword of the text matches and the relationship type has a
\* bias label, classify_emotion_heuristic returns the bias label at
\* familiarity 7 and above, at familiarity 4 to 6 the bias label when the
\* text is longer than 20 characters and neutral otherwise, and neutral
\* below 4
NoKeywordMatches(text) ==
  \A i \in 1..Len(EMOTION_KEYWORDS) : text.kws \cap EMOTION_KEYWORDS[i][2] = {}

C21_BiasGatedByFamiliarity ==
  LET c == aff.call
      bias == RELATIONSHIP_EMOTION_BIAS(c.relationship_type)
  IN (c.fn \in {"classify_emotion_heuristic", "classify_to_circumplex"}
        /\ NoKeywordMatches(c.text) /\ bias # "") =>
       c.label = IF c.familiarity_level >= 7 THEN bias
                 ELSE IF c.familiarity_level >= 4
                      THEN IF c.text.len > 20 THEN bias ELSE "neutral"
                      ELSE "neutral"

\* Nemesis at familiarity 8 and a short text without keyword: angry
C21_Witness ==
  /\ aff.call.fn = "classify_emotion_heuristic"
  /\ aff.call.relationship_type = "Nemesis" /\ aff.call.familiarity_level = 8
  /\ NoKeywordMatches(aff.call.text) /\ aff.call.text.len <= 20
  /\ aff.call.label = "angry"

\* C22: the initial emotion of a session is the last persisted AI emotion
\* of the pair when there is one; else the default of the character's
\* relationship type when the type is in the table; else neutral
\* (valence 0.0, arousal 0.2, low): from the end of phase 1 until routine (b)
\* exists, current_emotion is the source of highest priority available
LastPersisted(ch) ==
  CASE ch.last_ai = "stored" -> StoredEmotion
    [] ch.last_ai = "label_only" -> LabelOnlyEmotion

InDefaultTable(ch) == RELATIONSHIP_DEFAULT_EMOTIONS(ch.relationship_type) # <<>>

DefaultOf(ch) ==
  LET d == RELATIONSHIP_DEFAULT_EMOTIONS(ch.relationship_type)
  IN [valence |-> d[1], arousal |-> d[2], label |-> d[3], intensity |-> d[4]]

PhaseTwoOrThree ==
  /\ m_pc \in {"memory", "connect", "connecting", "auth_ok_sent", "greeting_send"}
  /\ b_pc = "unborn"

C22_SeedInPriorityOrder ==
  PhaseTwoOrThree =>
    LET ch == m_loc.character
    IN state.current_emotion =
         IF ch.found /\ ch.last_ai # "none" THEN LastPersisted(ch)
         ELSE IF ch.found /\ InDefaultTable(ch) THEN DefaultOf(ch)
         ELSE [valence |-> 0, arousal |-> 200, label |-> "neutral", intensity |-> "low"]

\* a character with a persisted emotion and a relationship type of the
\* table: the persisted emotion is the seed
C22_Witness ==
  /\ PhaseTwoOrThree
  /\ m_loc.character.found /\ m_loc.character.last_ai = "stored"
  /\ InDefaultTable(m_loc.character)
  /\ state.current_emotion = StoredEmotion
  /\ state.current_emotion # DefaultOf(m_loc.character)

\* C23: a failure of a best-effort path (the memory recall and the news
\* fetch of phase 2, the recall, the web search and the injection of a
\* retrieval scan, the send of an idle prompt) is caught where it occurs:
\* the step in which it fails sends no frame on the client channel and does
\* not close it, ends none of the routines (a), (b), (c), and leaves the
\* session running; after phase 2 the endpoint goes on to connect
EnrichmentFails ==
  \/ m_pc = "memory" /\ m_pc' # "memory"
       /\ (m_loc'.memory = "failed" \/ m_loc'.news = "failed")
  \/ hist'.scan_failures # hist.scan_failures
  \/ c_pc = "sending" /\ c_pc' # "sending" /\ ~cancelReq["c"]
       /\ c_loc.conn \notin up.open

C23_BestEffortFailuresAreCaught ==
  [][EnrichmentFails =>
       /\ ws' = ws
       /\ (a_pc' = "done") = (a_pc = "done")
       /\ (b_pc' = "done") = (b_pc = "done")
       /\ (c_pc' = "done") = (c_pc = "done")
       /\ state'.running = state.running /\ gem'.running = gem.running
       /\ up'.open = up.open
       /\ m_pc' = IF m_pc = "memory" THEN "connect" ELSE m_pc]_vars

\* a retrieval scan and an idle prompt have failed in a session that
\* streams on
C23_Witness ==
  /\ hist.scan_failures > 0
  /\ m_pc = "await_client" /\ a_pc = "recv" /\ b_pc # "done" /\ c_pc # "done"
  /\ state.running /\ ws.errors = <<>> /\ ~ws.closed

\* C24: the retrieval scan of a typed or transcribed text runs at most one
\* of the two tools: the memory recall when a recall trigger occurs in the
\* text (also when a web-search trigger occurs too), else the web search
\* when a web-search trigger occurs, else none (and none when the status
\* frame that precedes the tool cannot be sent); the scan is a task of its
\* own: the step that creates it runs none of it, and leaves routine (a)
\* reading the client channel (where routine (a) creates it) or where it
\* was (where routine (b) creates it, on transcribed speech)
ToolOfTheClaim(triggers) ==
  IF "recall_memory" \in triggers THEN "recall_memory"
  ELSE IF "search_web" \in triggers THEN "search_web" ELSE ""

C24_OneToolPerScanOffTheForwardingPath ==
  /\ [](\A i \in DOMAIN scans :
          /\ Cardinality(scans[i].ran) <= 1
          /\ scans[i].pc \in {"tool", "inject"} =>
               scans[i].ran = {ToolOfTheClaim(scans[i].triggers)})
  /\ [][\A i \in DOMAIN scans :
          /\ (scans[i].pc = "new" /\ scans'[i].pc # "new") =>
               IF ToolOfTheClaim(scans[i].triggers) = "" \/ ws.closed
               THEN scans'[i].pc = "done" /\ scans'[i].ran = {}
               ELSE scans'[i].pc = "tool"
          /\ scans[i].pc # "new" => scans'[i].ran \subseteq scans[i].ran]_vars
  /\ [][Len(scans') # Len(scans) =>
          /\ \E triggers \in SUBSET RetrievalTools :
               scans' = Append(scans, [triggers |-> triggers, pc |-> "new", tool |-> "",
                                       ran |-> {}, conn |-> 0])
          /\ IF budget'.events # budget.events
             THEN a_pc' = a_pc
             ELSE a_pc' = "recv"]_vars

\* the scan of a text with triggers of both kinds is running the memory
\* recall while routine (a) forwards the next frame
C24_Witness ==
  /\ \E i \in DOMAIN scans :
       /\ scans[i].triggers = RetrievalTools
       /\ scans[i].pc = "tool" /\ scans[i].ran = {"recall_memory"}
  /\ a_pc = "sending" /\ a_loc.seq > 1

\* the parts of the idle prompter's rule
IdleCheck == c_pc = "sleep" /\ ~cancelReq["c"] /\ (c_pc' # "sleep" \/ c_loc' # c_loc)

IdleLongEnough == now - state.last_activity_time >= IDLE_THRESHOLD_SECONDS

C25_SleepsTenSeconds ==
  [][(c_pc' = "sleep" /\ (c_pc # "sleep" \/ c_loc'.wake # c_loc.wake)) =>
       c_loc'.wake = now + CHECK_INTERVAL_SECONDS]_vars

C25_PromptIffIdle ==
  [][(IdleCheck /\ state.running /\ state.gemini_session) =>
       ((c_pc' = "sending") <=> IdleLongEnough)]_vars

C25_SuccessResetsTimer ==
  [][(c_pc = "sending" /\ c_pc' = "sleep" /\ c_loc.conn \in up.open) =>
       state'.last_activity_time = now /\ hist'.idle_sent = now]_vars

C25_ThirtySecondsApart ==
  [][(c_pc = "sending" /\ c_pc' = "sleep" /\ hist.idle_sent >= 0
        /\ hist'.idle_sent # hist.idle_sent) =>
       hist'.idle_sent - hist.idle_sent >= IDLE_THRESHOLD_SECONDS]_vars

C25_VariantByNewsContext ==
  [](c_pc = "sending" => c_loc.prompt = IF state.news_context THEN 0 ELSE 1)

\* C25: the idle prompter sleeps 10 seconds before each check; a check of a
\* running session hands exactly one prompt to the upstream connection if
\* and only if 30 seconds or more have passed since last_activity_time; a
\* send that succeeds sets last_activity_time to the time it returns, and
\* two prompts are never handed over less than 30 seconds apart; the
\* prompt is topic_prompts[0] (the topical one) when news_context is not
\* empty and topic_prompts[1] (the generic one) otherwise
C25_IdlePrompter ==
  /\ C25_SleepsTenSeconds
  /\ C25_PromptIffIdle
  /\ C25_SuccessResetsTimer
  /\ C25_ThirtySecondsApart
  /\ C25_VariantByNewsContext

(***************************************************************************)
(* C26                                                                     *)
(***************************************************************************)
\* the milliseconds the claim gives for the wait before a connect attempt
WaitOfTheClaim(attempt) == 500 * (attempt - 1)

\* C26: inside reconnect(), the wait before the first, the second and the
\* third connect attempt is 0 s, 0.5 s and 1.0 s: an attempt that sleeps
\* or connects has waited 500 * (attempt - 1) milliseconds
C26_BackoffWaits ==
  \A p \in {"a", "b"} :
    rc[p].pc \in {"sleep", "connecting"} => rc[p].wait = WaitOfTheClaim(rc[p].attempt)

\* what reconnect() does: no wait before the first attempt, 1.0 s before
\* the second and 1.5 s before the third
C26_WaitsOfTheCode ==
  \A p \in {"a", "b"} :
    /\ rc[p].pc \in {"sleep", "connecting"} =>
         rc[p].wait = IF rc[p].attempt = 1 THEN 0 ELSE 500 * rc[p].attempt
    /\ rc[p].pc = "sleep" => rc[p].attempt \in 2..RECONNECT_MAX_RETRIES

(***************************************************************************)
(* C27                                                                     *)
(***************************************************************************)
\* a burst evaluation issues a follow-up in this step
FollowUpIssued == b_pc' = "burst_sleep" /\ b_pc # "burst_sleep"

\* the send of a follow-up begins in this step
FollowUpSendBegins == b_pc' = "burst_send" /\ b_pc # "burst_send"

\* C27: a burst evaluation issues a follow-up only if, at that evaluation,
\* arousal is at least 0.7, the burst count is below 3 and the cooldown
\* deadline has passed; an issued follow-up raises the burst count by
\* exactly 1 (and nothing else raises it), uses the template whose index is
\* the count before the increment modulo 3, and is sent after a sleep of
\* 0.8 s, with that template, only if the session is still running then
C27_FollowUpRule ==
  /\ [][FollowUpIssued =>
          /\ state.current_emotion.arousal >= BURST_AROUSAL_THRESHOLD
          /\ state.burst_count < BURST_MAX_FOLLOW_UPS
          /\ now >= state.burst_cooldown_until
          /\ state'.burst_count = state.burst_count + 1
          /\ b_loc'.prompt = state.burst_count % NUM_BURST_PROMPTS
          /\ b_loc'.wait = 800]_vars
  /\ [][state'.burst_count > state.burst_count => FollowUpIssued]_vars
  /\ [][FollowUpSendBegins =>
          /\ b_pc = "burst_sleep" /\ b_loc.wait = 800
          /\ state.running
          /\ b_loc'.prompt = b_loc.prompt]_vars
  /\ [](b_pc \in {"burst_sleep", "burst_send"} => b_loc.prompt \in 0..(NUM_BURST_PROMPTS - 1))

\* the third follow-up in a row is being sent, with the third template
C27_Witness ==
  /\ b_pc = "burst_send" /\ b_loc.prompt = 2
  /\ state.burst_count = BURST_MAX_FOLLOW_UPS /\ state.running

(***************************************************************************)
(* C28                                                                     *)
(***************************************************************************)
\* routine (b) evaluates the burst rule in this step (lines 687-709)
BurstEvaluation ==
  \/ b_pc = "injecting" /\ b_pc' \notin {"injecting", "exc_sleep", "done"}
  \/ TurnReconnectReturnedTrue /\ state.transcript_buffer = <<>>

CooldownStarts ==
  /\ state'.burst_cooldown_until = now + BURST_COOLDOWN_SECONDS
  /\ state'.burst_count = 0

UserFrameForwarded ==
  a_pc = "sending" /\ a_loc.conn \in up.open /\ a_pc' = "recv"

\* routine (a) reads a control frame in this step
ControlFrameRead ==
  hist'.client_frames # hist.client_frames /\ hist'.frame = "control"

\* routine (a) takes a step
RoutineAStep ==
  /\ a_pc # "unborn"
  /\ <<a_pc, a_loc>>' # <<a_pc, a_loc>> \/ hist'.client_frames # hist.client_frames

\* C29: for every audio and every text frame that routine (a) forwards it
\* sets last_activity_time to the current time, sets
\* user_interacted_since_last_emotion and resets burst_count to 0; on a
\* control frame it changes none of the three; no step of routine (a)
\* changes current_emotion or burst_cooldown_until
C29_ActivityBookkeeping ==
  /\ [][UserFrameForwarded =>
          /\ hist.frame \in {"audio", "text"} /\ hist.frame = a_loc.type
          /\ state'.last_activity_time = now
          /\ state'.user_interacted_since_last_emotion
          /\ state'.burst_count = 0]_vars
  /\ [][ControlFrameRead =>
          /\ state'.last_activity_time = state.last_activity_time
          /\ state'.user_interacted_since_last_emotion =
               state.user_interacted_since_last_emotion
          /\ state'.burst_count = state.burst_count]_vars
  /\ [][RoutineAStep =>
          /\ state'.current_emotion = state.current_emotion
          /\ state'.burst_cooldown_until = state.burst_cooldown_until]_vars

\* a text frame forwarded after time has passed and after a follow-up was
\* issued: the time is recorded, the flag is set and the count is back to 0
C29_Witness ==
  /\ hist.frame = "text" /\ a_pc = "recv" /\ a_loc.type = "text"
  /\ now > 0 /\ state.last_activity_time = now
  /\ state.user_interacted_since_last_emotion
  /\ state.burst_count = 0 /\ hist.issued > 0

(***************************************************************************)
(* C30                                                                     *)
(***************************************************************************)
\* an audio or text frame is sent to the client in this step
FrameStamped == ws'.frame # ws.frame

\* an entry of the model is appended to the transcript in this step
ModelEntryAppended ==
  /\ Len(state'.transcript_buffer) = Len(state.transcript_buffer) + 1
  /\ state'.transcript_buffer[Len(state'.transcript_buffer)].role = "model"

\* C30: every audio and every text frame sent to the client carries the
\* label, valence, arousal and intensity of the session's current
\* EmotionState at the moment the frame is built (for a text, after the
\* classification of that text, if there is one); an audio frame changes
\* nothing of the session's state, and the transcript entry recorded for a
\* text carries the label stamped on its text frame
C30_FramesStamped ==
  /\ [][FrameStamped =>
          /\ ws'.frame.n = ws.frame.n + 1
          /\ ws'.frame.type \in {"audio", "text"}
          /\ ws'.frame.emotion = state'.current_emotion.label
          /\ ws'.frame.valence = state'.current_emotion.valence
          /\ ws'.frame.arousal = state'.current_emotion.arousal
          /\ ws'.frame.intensity = state'.current_emotion.intensity
          /\ ws'.frame.type = "audio" => state' = state
          /\ ws'.frame.type = "text" =>
               /\ ModelEntryAppended
               /\ state'.transcript_buffer[Len(state'.transcript_buffer)].emotion =
                    ws'.frame.emotion]_vars
  /\ [][ModelEntryAppended => FrameStamped /\ ws'.frame.type = "text"]_vars

\* the second frame sent is a text whose classification changed the
\* EmotionState the first frame had been stamped with
C30_Witness ==
  /\ ws.frame.type = "text" /\ ws.frame.n = 2
  /\ hist.classified > 0
  /\ ws.frame.emotion # SeedEmotion(m_loc.character, InitialSessionState.current_emotion).label
  /\ ws.frame.emotion = state.current_emotion.label
  /\ state.transcript_buffer[Len(state.transcript_buffer)].role = "model"
  /\ ws.frame.emotion = state.transcript_buffer[Len(state.transcript_buffer)].emotion

(***************************************************************************)
(* C31                                                                     *)
(***************************************************************************)
\* none of the three routines has been started
NoRoutineStarted == a_pc = "unborn" /\ b_pc = "unborn" /\ c_pc = "unborn"

\* C31: auth_ok is sent at most once in a session, in the step in which
\* connect() returns, after the auth frame was accepted and the character,
\* if one was named, was found; the greeting is the first message handed
\* to the upstream connection and is handed over before any of the three
\* routines starts; before auth_ok no routine runs, no client frame is read
\* or forwarded and no audio or text frame is sent to the client
C31_HandshakeOrder ==
  /\ [](ws.auth_ok <= 1)
  /\ [][ws'.auth_ok # ws.auth_ok =>
          /\ ws.auth_ok = 0 /\ ws'.auth_ok = 1
          /\ hist.first = "auth"
          /\ m_loc.character_id => m_loc.character.found
          /\ m_pc = "connecting"
          /\ gem'.session # 0 /\ gem'.session \in up'.open /\ gem'.running]_vars
  /\ [](up.first \in {"", "greeting"})
  /\ [](~NoRoutineStarted => up.first = "greeting")
  /\ [](up.first = "greeting" => ws.auth_ok = 1)
  /\ [](ws.auth_ok = 0 =>
          /\ NoRoutineStarted
          /\ hist.client_frames = 0 /\ up.last_audio = 0
          /\ ws.frame.n = 0)

\* after the handshake with a named character, a client audio frame has
\* been forwarded and a frame has been sent to the client
C31_Witness ==
  /\ ws.auth_ok = 1 /\ up.first = "greeting"
  /\ m_loc.character_id /\ m_loc.character.found
  /\ up.last_audio > 0 /\ ws.frame.n > 0

(***************************************************************************)
(* C32                                                                     *)
(***************************************************************************)
\* the table's coordinates of a label (those of neutral outside the table)
TableValence(label) == EMOTION_MAP[EmotionIndex(label)][2]
TableArousal(label) == EMOTION_MAP[EmotionIndex(label)][3]

\* the factors of the modulation, in twentieths
ArousalFactor(mbti) == IF mbti \in MbtiE THEN 23 ELSE IF mbti \in MbtiI THEN 17 ELSE 20
ValenceFactor(mbti) == IF mbti \in MbtiF THEN 24 ELSE IF mbti \in MbtiT THEN 16 ELSE 20

\* C32: the modulation multiplies arousal by 1.15 for a first letter E and
\* by 0.85 for I, valence by 1.20 for a third letter F and by 0.80 for T,
\* then clamps valence to [-1, 1] and arousal to [0, 1]; without a code,
\* or with one of fewer than 4 letters, both are unchanged; the label of
\* the result is a label of the table nearest to the modulated point, and
\* the result carries the modulated point rounded to three decimals
C32_PersonalityModulation ==
  aff.call.fn = "label_to_circumplex" =>
    LET c == aff.call
        v == TableValence(c.label) * ArousalFactor("")
        a == TableArousal(c.label) * ValenceFactor("")
        mv == TableValence(c.label) * ValenceFactor(c.mbti)
        ma == TableArousal(c.label) * ArousalFactor(c.mbti)
    IN /\ (c.mbti = "" \/ c.mbti \in MbtiShort) => c.mod = <<v, a>>
       /\ (c.mbti # "" /\ c.mbti \notin MbtiShort) =>
            /\ c.mod[1] = (IF mv > 20000 THEN 20000 ELSE IF mv < -20000 THEN -20000 ELSE mv)
            /\ c.mod[2] = (IF ma > 20000 THEN 20000 ELSE IF ma < 0 THEN 0 ELSE ma)
       /\ \A i \in 1..Len(EMOTION_MAP) :
            Dist2(c.mod[1], c.mod[2], EmotionIndex(c.out.label)) <= Dist2(c.mod[1], c.mod[2], i)
       /\ \E i \in 1..Len(EMOTION_MAP) : EMOTION_MAP[i][1] = c.out.label
       /\ 2 * (20 * c.out.valence - c.mod[1]) \in -20..20
       /\ 2 * (20 * c.out.arousal - c.mod[2]) \in -20..20

\* an extraverted feeling code on "excited": the arousal 0.9 * 1.15 is
\* clamped to 1, the valence is 0.8 * 1.2 = 0.96
C32_Witness ==
  /\ aff.call.fn = "label_to_circumplex"
  /\ aff.call.label = "excited" /\ aff.call.mbti = "ENFP"
  /\ aff.call.out.arousal = 1000 /\ aff.call.out.valence = 960

(***************************************************************************)
(* C33                                                                     *)
(***************************************************************************)
InRange(e) == e.valence \in -1000..1000 /\ e.arousal \in 0..1000

\* C33: every EmotionState classify_to_circumplex returns has its valence
\* in [-1, 1] and its arousal in [0, 1], whatever the text, relationship
\* type, familiarity, personality code and previous state, a previous
\* state outside the ranges included
C33_ClassifyInRange ==
  aff.call.fn = "classify_to_circumplex" => InRange(aff.call.out)

\* a previous state with valence 1.4 and arousal -0.4 was blended and the
\* valence of the result sits on the bound
C33_Witness ==
  /\ aff.call.fn = "classify_to_circumplex"
  /\ ~InRange(aff.call.prev) /\ aff.call.prev # NoPrevState
  /\ aff.call.prev.valence > 1000 /\ aff.call.prev.arousal < 0
  /\ aff.call.out.valence = 1000

(***************************************************************************)
(* C34                                                                     *)
(***************************************************************************)
\* the analysis returned the stored familiarity
FamiliarityUnchanged(adj) ==
  /\ adj.result.familiarity_level.kind = "num"
  /\ adj.result.familiarity_level.tenths = 10 * adj.before.familiarity_level

\* C34: a run of adjust_relationship moves the stored familiarity by at
\* most 1 and never stores one outside 1..10, whatever familiarity the
\* analysis returns; when the analysis reports no change, or returns an
\* invalid relationship type with the stored familiarity, nothing is
\* written
C34_AdjustByAtMostOne ==
  aff.call.fn = "adjust_relationship" =>
    LET adj == aff.call.adj
        d == aff.character.familiarity_level - adj.before.familiarity_level
    IN /\ d \in -1..1
       /\ adj.before.found => aff.character.familiarity_level \in 1..10
       /\ ( \/ ~adj.result.changed
            \/ /\ adj.result.relationship_type \notin VALID_RELATIONSHIP_TYPES
               /\ FamiliarityUnchanged(adj) )
          => adj.update_fields = {} /\ aff.character = adj.before

\* the analysis asked for 12 on a stored 5 and 6 was written, type and all
C34_Witness ==
  /\ aff.call.fn = "adjust_relationship"
  /\ aff.call.adj.before.familiarity_level = 5
  /\ aff.call.adj.result.familiarity_level = [kind |-> "num", tenths |-> 120]
  /\ aff.call.adj.update_fields = {"relationship_type", "familiarity_level"}
  /\ aff.character.familiarity_level = 6

(***************************************************************************)
(* C35                                                                     *)
(***************************************************************************)
\* C35: at most one upstream connection is open for the session at any
\* time, and once the session has ended every connection the adapter
\* opened is closed, the overlapping reconnect() calls of routines (a)
\* and (b) included
C35_OneConnectionAllClosed ==
  /\ Cardinality(up.open) <= 1
  /\ m_pc = "closed" => up.open = {}

(***************************************************************************)
(* C36                                                                     *)
(***************************************************************************)
\* the tasks of a pair that are inside `async with lock`
Holders(k) ==
  {t \in DOMAIN tasks : tasks[t].key = k /\ tasks[t].entered /\ tasks[t].pc # "done"}

\* C36: the lock of a pair is held exactly while one task of the pair is
\* inside its body; every exit of that task (message persisted, failure
\* of the generation or of the insert, character or user not found)
\* releases it in the same step; so no lock is held forever and every
\* task finishes; a trigger above the threshold always creates a task,
\* and a task whose first step finds the lock free takes it and starts
\* an execution
C36_LockReleasedOnEveryExit ==
  /\ [](\A k \in Keys :
          /\ Cardinality(Holders(k)) <= 1
          /\ Locked(_proactive_locks, k) <=> Holders(k) # {})
  /\ [][\A t \in DOMAIN tasks :
          (tasks[t].entered /\ tasks[t].pc # "done" /\ tasks'[t].pc = "done")
            => ~Locked(_proactive_locks', tasks[t].key)]_vars
  /\ [][(ready # <<>> /\ Head(ready).kind = "request"
           /\ Head(ready).arousal > PROACTIVE_AROUSAL_THRESHOLD
           /\ Len(ready') <= Len(ready))
          => /\ Len(tasks') = Len(tasks) + 1
             /\ tasks'[Len(tasks')].key = Head(ready).key
             /\ tasks'[Len(tasks')].pc = "created"
             /\ ready'[Len(ready')] = [kind |-> "task", id |-> Len(tasks')]]_vars
  /\ [][\A t \in DOMAIN tasks :
          (tasks[t].pc = "created" /\ tasks'[t].pc # "created"
             /\ ~Locked(_proactive_locks, tasks[t].key))
            => /\ tasks'[t].entered /\ tasks'[t].pc = "sleep"
               /\ Locked(_proactive_locks', tasks[t].key)]_vars
  /\ \A k \in Keys : Locked(_proactive_locks, k) ~> ~Locked(_proactive_locks, k)
  /\ \A t \in 1..MaxTriggers : (t \in DOMAIN tasks) ~> (t \in DOMAIN tasks /\ tasks[t].pc = "done")

\* a task of a pair left without persisting (a failure or a row not
\* found), and a task of a later trigger of the pair is inside the body
C36_Witness ==
  \E t1, t2 \in DOMAIN tasks :
    /\ t1 < t2 /\ tasks[t1].key = tasks[t2].key
    /\ tasks[t1].entered /\ tasks[t1].pc = "done"
    /\ pro_hist.persisted[tasks[t1].key] = 0
    /\ ~tasks[t2].in_window /\ tasks[t2].entered /\ tasks[t2].pc = "sleep"
    /\ Locked(_proactive_locks, tasks[t2].key)

(***************************************************************************)
(* C37                                                                     *)
(***************************************************************************)
\* C37: in every reachable state of a session the burst count is an
\* integer from 0 to 3, however the increments and resets of routine (b)
\* interleave with the resets of routine (a)
C37_BurstCountInRange ==
  state.burst_count \in Nat /\ state.burst_count <= 3

\* routine (b) has counted its third follow-up and sleeps before sending
\* it, and routine (a) has reset the count in the meantime
C37_Witness ==
  /\ b_pc = "burst_sleep" /\ b_loc.prompt = 2
  /\ state.burst_count = 0
  /\ a_pc = "recv" /\ state.user_interacted_since_last_emotion

(***************************************************************************)
(* C38                                                                     *)
(***************************************************************************)
\* the adapter has no session or its _running flag is down
NotConnected == gem.session = 0 \/ ~gem.running

\* routine (a) calls send_audio / send_text: for a frame it has just read,
\* or again after the sleep that follows a reconnect()
ASendCall ==
  \/ /\ a_pc = "recv" /\ hist'.client_frames # hist.client_frames
     /\ hist'.frame \in {"audio", "text"}
  \/ a_pc = "retry_sleep" /\ a_pc' # "retry_sleep"

\* routine (c) calls send_text with its idle prompt
CSendCall ==
  /\ c_pc = "sleep" /\ c_loc' # c_loc
  /\ state.running /\ state.gemini_session
  /\ now - state.last_activity_time >= IDLE_THRESHOLD_SECONDS

\* routine (b) calls send_text with its follow-up
BSendCall ==
  /\ b_pc = "burst_sleep" /\ b_pc' # "burst_sleep" /\ ~cancelReq["b"]
  /\ state.running

C39_SearchingFollowedByDone ==
  \A t \in RetrievalTools : (ws.status[t] = "searching") ~> (ws.status[t] = "done")

(***************************************************************************)
(* C40                                                                     *)
(***************************************************************************)
\* C40: an error frame with code TIMEOUT is sent only while the endpoint
\* waits for the auth frame; once the first inbound message has been
\* received no failure is reported as TIMEOUT
C40_TimeoutOnlyForAuth ==
  /\ [][(\E i \in DOMAIN ws'.errors : ws'.errors[i] = "TIMEOUT" /\ i \notin DOMAIN ws.errors)
          => m_pc = "auth_wait"]_vars
  /\ []((\E i \in DOMAIN ws.errors : ws.errors[i] = "TIMEOUT") => hist.first = "timeout")

=============================================================================
